---------------------------- MODULE Spec2Model ----------------------------
(***************************************************************************)
(* Billing reconciliation dashboard: the identifier normalizer cleanCnpj,  *)
(* the pricing engine calculateBill, the reconciler reconcileData, and the *)
(* App component's handlers that hold and edit the results list.           *)
(*                                                                         *)
(* Strings that are inspected character by character (identifiers) are     *)
(* sequences of one-character strings.  A JavaScript value of type         *)
(* number | undefined is a record [t, n]: t = "num" with the integer n,    *)
(* t = "nan" (NaN) or t = "undef" (undefined).  An optional object is a    *)
(* sequence of length 0 (undefined / null) or 1.                           *)
(***************************************************************************)
EXTENDS Integers, Sequences, FiniteSets, TLC

VARIABLES
    results,      \* App: useState<BillingResult[]>
    analysis,     \* App: useState<string | null>, <<>> is null
    isAnalyzing,  \* App: useState(false)
    rulesList,    \* the pricing rules given to the last reconcileData call
    socList,      \* the records given to the reconcileData call under study
    socData,      \* argument of the calculateBill call under study
    rule,         \* argument of the calculateBill call under study, <<>> is undefined
    bill,         \* value returned by the calculateBill call, <<>> before it returns
    cnpj,         \* argument of the cleanCnpj call under study
    cleaned,      \* value returned by the cleanCnpj call
    pc,           \* position of the function call under study: "call" or "return"
    mapObj,       \* reconcileData: the Map object rulesMap of the latest call
    calls,        \* the reconcileData calls made so far: arguments and returned value
    heap,         \* the SocData objects allocated so far, by address
    pending,      \* generateReport: the analyzeBilling call in flight, <<>> when none
    table,        \* ResultsTable: its useState fields
    exported,     \* ResultsTable: <<rows>> written by exportToCSV in the latest step, else <<>>
    propCalls,    \* ResultsTable: the onUpdate / onDelete calls made by the latest step
    socText,      \* DataInputSection: useState(''), the company rows as lines of fields
    pricingText,  \* DataInputSection: useState(''), the pricing rows as lines of fields
    prompt        \* analyzeBilling: the data of the prompt of the last call, <<>> before

vars == <<results, analysis, isAnalyzing, rulesList, socList, socData, rule,
          bill, cnpj, cleaned, pc, mapObj, calls, heap, pending, table,
          exported, propCalls, socText, pricingText, prompt>>

\* the state of the table and of the import form, and the last prompt
uiVars == <<table, exported, propCalls, socText, pricingText, prompt>>

---------------------------------------------------------------------------
(* JavaScript numbers *)

Num(n) == [t |-> "num", n |-> n]
NaN == [t |-> "nan", n |-> 0]
Undefined == [t |-> "undef", n |-> 0]

IsNum(x) == x.t = "num"

\* x || 0 : undefined, NaN and 0 are falsy
OrZero(x) == IF IsNum(x) /\ x.n # 0 THEN x ELSE Num(0)

\* a <= b : false as soon as one side is NaN (undefined converts to NaN)
Le(a, b) == IsNum(a) /\ IsNum(b) /\ a.n <= b.n

Add(a, b) == IF IsNum(a) /\ IsNum(b) THEN Num(a.n + b.n) ELSE NaN
Sub(a, b) == IF IsNum(a) /\ IsNum(b) THEN Num(a.n - b.n) ELSE NaN
Mul(a, b) == IF IsNum(a) /\ IsNum(b) THEN Num(a.n * b.n) ELSE NaN

\* Math.max(a, b) : NaN as soon as one argument is NaN
MathMax(a, b) ==
    IF IsNum(a) /\ IsNum(b) THEN (IF a.n >= b.n THEN a ELSE b) ELSE NaN

---------------------------------------------------------------------------
(* types.ts *)

PricingModel == {"TIERED", "PER_HEAD_MIN", "FLAT"}

\* a template string and the numbers interpolated into it
Details(text, args) == [text |-> text, args |-> args]

BillingResult(soc, pricingRule, amount, details, status) ==
    [socData |-> soc, pricingRule |-> pricingRule, calculatedAmount |-> amount,
     details |-> details, status |-> status]

---------------------------------------------------------------------------
(* calculationService.ts *)

Digits == {"0", "1", "2", "3", "4", "5", "6", "7", "8", "9"}

IsDigit(c) == c \in Digits

\* mutant of cleanCnpj: the g flag forgotten, only the first non-digit removed
cleanCnpj_FirstOnly(s) ==
    LET bad == {i \in DOMAIN s : ~IsDigit(s[i])}
    IN  IF bad = {} THEN s
        ELSE LET f == CHOOSE i \in bad : \A j \in bad : i <= j
             IN  SubSeq(s, 1, f - 1) \o SubSeq(s, f + 1, Len(s))

\* cnpj.replace(/[^\d]/g, '')
cleanCnpj(s) == SelectSeq(s, IsDigit)

\* mutant of MissingRuleCase: calculatedAmount left out of the returned object
MissingRuleCase_NoAmount(soc) ==
    BillingResult(soc, <<>>, Undefined,
                  Details("Regra de contrato não encontrada", <<>>),
                  "MISSING_RULE")

\* mutant of MissingRuleCase: the other error status of the BillingResult type
MissingRuleCase_MissingSoc(soc) ==
    BillingResult(soc, <<>>, Num(0),
                  Details("Regra de contrato não encontrada", <<>>),
                  "MISSING_SOC")

\* mutant of MissingRuleCase: the head count charged without a rule
MissingRuleCase_ChargesHeads(soc) ==
    BillingResult(soc, <<>>, soc.activeEmployees,
                  Details("Regra de contrato não encontrada", <<>>),
                  "MISSING_RULE")

\* if (!rule) return {...}
MissingRuleCase(soc) ==
    BillingResult(soc, <<>>, Num(0),
                  Details("Regra de contrato não encontrada", <<>>),
                  "MISSING_RULE")

\* mutant of TieredCase: the "|| 0" defaults forgotten
TieredCase_NoDefault(soc, r) ==
    LET included == r.includedEmployees
        excessRate == r.excessPrice
    IN  IF Le(soc.activeEmployees, included)
        THEN <<r.basePrice, Details("Fixo (Até $1 func.)", <<included>>)>>
        ELSE LET excessCount == Sub(soc.activeEmployees, included)
                 excessTotal == Mul(excessCount, excessRate)
             IN  <<Add(r.basePrice, excessTotal),
                   Details("Base R$$1 + ($2 extras x R$$3)",
                           <<r.basePrice, excessCount, excessRate>>)>>

\* mutant of TieredCase: every employee charged the excess rate
TieredCase_ExcessOnAll(soc, r) ==
    LET included == OrZero(r.includedEmployees)
        excessRate == OrZero(r.excessPrice)
    IN  IF Le(soc.activeEmployees, included)
        THEN <<r.basePrice, Details("Fixo (Até $1 func.)", <<included>>)>>
        ELSE LET excessCount == soc.activeEmployees
                 excessTotal == Mul(excessCount, excessRate)
             IN  <<Add(r.basePrice, excessTotal),
                   Details("Base R$$1 + ($2 extras x R$$3)",
                           <<r.basePrice, excessCount, excessRate>>)>>

\* mutant of TieredCase: the subtraction of the excess count reversed
TieredCase_Reversed(soc, r) ==
    LET included == OrZero(r.includedEmployees)
        excessRate == OrZero(r.excessPrice)
    IN  IF Le(soc.activeEmployees, included)
        THEN <<r.basePrice, Details("Fixo (Até $1 func.)", <<included>>)>>
        ELSE LET excessCount == Sub(included, soc.activeEmployees)
                 excessTotal == Mul(excessCount, excessRate)
             IN  <<Add(r.basePrice, excessTotal),
                   Details("Base R$$1 + ($2 extras x R$$3)",
                           <<r.basePrice, excessCount, excessRate>>)>>

\* case PricingModel.TIERED: the pair <<amount, details>>
TieredCase(soc, r) ==
    LET included == OrZero(r.includedEmployees)
        excessRate == OrZero(r.excessPrice)
    IN  IF Le(soc.activeEmployees, included)
        THEN <<r.basePrice, Details("Fixo (Até $1 func.)", <<included>>)>>
        ELSE LET excessCount == Sub(soc.activeEmployees, included)
                 excessTotal == Mul(excessCount, excessRate)
             IN  <<Add(r.basePrice, excessTotal),
                   Details("Base R$$1 + ($2 extras x R$$3)",
                           <<r.basePrice, excessCount, excessRate>>)>>

\* mutant of PerHeadMinCase: the minimum not enforced
PerHeadMinCase_NoMin(soc, r) ==
    LET min == OrZero(r.minEmployees)
        rate == r.basePrice
        billableCount == soc.activeEmployees
    IN  <<Mul(billableCount, rate),
          Details("$1 faturados x R$$2 (Mínimo: $3)", <<billableCount, rate, min>>)>>

\* the smaller of two numbers: NaN as soon as one argument is NaN
MathMin(a, b) ==
    IF IsNum(a) /\ IsNum(b) THEN (IF a.n <= b.n THEN a ELSE b) ELSE NaN

\* mutant of PerHeadMinCase: the minimum taken as a ceiling
PerHeadMinCase_Ceiling(soc, r) ==
    LET min == OrZero(r.minEmployees)
        rate == r.basePrice
        billableCount == MathMin(soc.activeEmployees, min)
    IN  <<Mul(billableCount, rate),
          Details("$1 faturados x R$$2 (Mínimo: $3)", <<billableCount, rate, min>>)>>

\* case PricingModel.PER_HEAD_MIN
PerHeadMinCase(soc, r) ==
    LET min == OrZero(r.minEmployees)
        rate == r.basePrice
        billableCount == MathMax(soc.activeEmployees, min)
    IN  <<Mul(billableCount, rate),
          Details("$1 faturados x R$$2 (Mínimo: $3)", <<billableCount, rate, min>>)>>

\* mutant of FlatCase: basePrice taken as a per-head rate
FlatCase_PerHead(soc, r) ==
    <<Mul(soc.activeEmployees, r.basePrice), Details("Valor fixo mensal", <<>>)>>

\* case PricingModel.FLAT
FlatCase(soc, r) == <<r.basePrice, Details("Valor fixo mensal", <<>>)>>

\* mutant of DefaultCase: an unknown model billed its basePrice
DefaultCase_Base(soc, r) == <<r.basePrice, Details("Modelo desconhecido", <<>>)>>

\* default:
DefaultCase(soc, r) == <<Num(0), Details("Modelo desconhecido", <<>>)>>

\* switch (rule.model)
SwitchModel(soc, r) ==
    CASE r.model = "TIERED" -> TieredCase(soc, r)
      [] r.model = "PER_HEAD_MIN" -> PerHeadMinCase(soc, r)
      [] r.model = "FLAT" -> FlatCase(soc, r)
      [] OTHER -> DefaultCase(soc, r)

\* return { socData, pricingRule: rule, calculatedAmount: amount, details, status: 'READY' }
ReadyResult(soc, r, out) == BillingResult(soc, <<r>>, out[1], out[2], "READY")

calculateBill(soc, optRule) ==
    IF optRule = <<>>
    THEN MissingRuleCase(soc)
    ELSE ReadyResult(soc, optRule[1], SwitchModel(soc, optRule[1]))

\* mutant of BuildRulesMap: a key already in the map is not overwritten
RECURSIVE BuildRulesMap_FirstWins(_, _)
BuildRulesMap_FirstWins(rules, k) ==
    IF k = 0 THEN <<>>
    ELSE LET m == BuildRulesMap_FirstWins(rules, k - 1)
             key == cleanCnpj(rules[k].cnpj)
         IN  IF key \in DOMAIN m THEN m
             ELSE [x \in (DOMAIN m) \cup {key} |-> IF x = key THEN rules[k] ELSE m[x]]

\* rulesList.forEach(r => rulesMap.set(cleanCnpj(r.cnpj), r)), on the first k rules
RECURSIVE BuildRulesMap(_, _)
BuildRulesMap(rules, k) ==
    IF k = 0 THEN <<>>
    ELSE LET m == BuildRulesMap(rules, k - 1)
             key == cleanCnpj(rules[k].cnpj)
         IN  [x \in (DOMAIN m) \cup {key} |-> IF x = key THEN rules[k] ELSE m[x]]

\* rulesMap.get(cleanId)
MapGet(m, key) == IF key \in DOMAIN m THEN <<m[key]>> ELSE <<>>

\* mutant of LookupRule: the record's identifier looked up without normalizing it
LookupRule_Raw(soc, rulesMap) == MapGet(rulesMap, soc.cnpj)

\* the rule reconcileData prices soc with
LookupRule(soc, rulesMap) == MapGet(rulesMap, cleanCnpj(soc.cnpj))

\* mutant of NewRulesMap: the Map created once and shared by all the calls
NewRulesMap_Shared(old) == old

\* const rulesMap = new Map<string, PricingRule>() : a fresh, empty Map in
\* every call, whatever Map object the call before left behind
NewRulesMap(old) == <<>>

\* rulesList.forEach(r => rulesMap.set(cleanCnpj(r.cnpj), r)) on the Map m0
SetAll(m0, rules) ==
    LET b == BuildRulesMap(rules, Len(rules))
    IN  [x \in (DOMAIN m0) \cup (DOMAIN b) |-> IF x \in DOMAIN b THEN b[x] ELSE m0[x]]

\* socList.forEach(soc => results.push(calculateBill(soc, rulesMap.get(...))))
PriceAll(socs, rulesMap) ==
    [i \in 1..Len(socs) |-> calculateBill(socs[i], LookupRule(socs[i], rulesMap))]

\* mutant of reconcileData: a record whose normalized identifier was already
\* seen is skipped
reconcileData_Dedup(socs, rules) ==
    LET rulesMap == BuildRulesMap(rules, Len(rules))
        first == {i \in DOMAIN socs :
                     \A j \in 1..(i - 1) : cleanCnpj(socs[j].cnpj) # cleanCnpj(socs[i].cnpj)}
        Nth(k) == CHOOSE i \in first : Cardinality({j \in first : j <= i}) = k
    IN  [k \in 1..Cardinality(first) |->
            calculateBill(socs[Nth(k)], LookupRule(socs[Nth(k)], rulesMap))]

reconcileData(socs, rules) ==
    LET rulesMap == BuildRulesMap(rules, Len(rules))
    IN  [i \in 1..Len(socs) |-> calculateBill(socs[i], LookupRule(socs[i], rulesMap))]

---------------------------------------------------------------------------
(* App.tsx *)

\* mutant of handleDeleteResults: rows matched on the normalized identifier
handleDeleteResults_Normalized(prev, id) ==
    LET Keep(item) == cleanCnpj(item.socData.cnpj) # cleanCnpj(id)
    IN  SelectSeq(prev, Keep)

\* prev.filter(item => item.socData.cnpj !== cnpj)
handleDeleteResults(prev, id) ==
    LET Keep(item) == item.socData.cnpj # id
    IN  SelectSeq(prev, Keep)

\* { ...item.socData, activeEmployees: newEmployees }
NewSocData(soc, newEmployees) == [soc EXCEPT !.activeEmployees = newEmployees]

\* mutant of UpdateItem: the new record stored, the bill left as it was
UpdateItem_KeepBill(item, id, newEmployees) ==
    IF item.socData.cnpj = id
    THEN [item EXCEPT !.socData = NewSocData(item.socData, newEmployees)]
    ELSE item

\* mutant of UpdateItem: the recomputed row always marked READY
UpdateItem_MarksReady(item, id, newEmployees) ==
    IF item.socData.cnpj = id
    THEN [calculateBill(NewSocData(item.socData, newEmployees), item.pricingRule)
             EXCEPT !.status = "READY"]
    ELSE item

\* mutant of UpdateItem: the new count added to the old one
UpdateItem_Add(item, id, newEmployees) ==
    IF item.socData.cnpj = id
    THEN calculateBill(NewSocData(item.socData,
                                  Add(item.socData.activeEmployees, newEmployees)),
                       item.pricingRule)
    ELSE item

\* mutant of UpdateItem: rows matched on the normalized identifier
UpdateItem_Normalized(item, id, newEmployees) ==
    IF cleanCnpj(item.socData.cnpj) = cleanCnpj(id)
    THEN calculateBill(NewSocData(item.socData, newEmployees), item.pricingRule)
    ELSE item

\* mutant of UpdateItem: the rule the result held not passed to calculateBill
UpdateItem_NoRule(item, id, newEmployees) ==
    IF item.socData.cnpj = id
    THEN calculateBill(NewSocData(item.socData, newEmployees), <<>>)
    ELSE item

\* mutant of UpdateItem: only socData and calculatedAmount replaced, details kept
UpdateItem_StaleDetails(item, id, newEmployees) ==
    IF item.socData.cnpj = id
    THEN LET b == calculateBill(NewSocData(item.socData, newEmployees), item.pricingRule)
         IN  [item EXCEPT !.socData = b.socData, !.calculatedAmount = b.calculatedAmount]
    ELSE item

\* the callback of prev.map in handleUpdate
UpdateItem(item, id, newEmployees) ==
    IF item.socData.cnpj = id
    THEN calculateBill(NewSocData(item.socData, newEmployees), item.pricingRule)
    ELSE item

handleUpdateResults(prev, id, newEmployees) ==
    [i \in 1..Len(prev) |-> UpdateItem(prev[i], id, newEmployees)]

---------------------------------------------------------------------------
(* The same functions on objects: a SocData object is an address of the heap,
   and a result holds the address of its record *)

\* mutant of AllocSoc: the count written into the record the result holds
AllocSoc_InPlace(h, ref, newEmployees) ==
    [heap |-> [h EXCEPT ![ref] = NewSocData(h[ref], newEmployees)], ref |-> ref]

\* const newSocData = { ...item.socData, activeEmployees: newEmployees } :
\* a new object, the heap after the allocation and its address
AllocSoc(h, ref, newEmployees) ==
    [heap |-> Append(h, NewSocData(h[ref], newEmployees)), ref |-> Len(h) + 1]

\* calculateBill returns { socData, ... } : the result holds the object given
BillOfRef(h, ref, optRule) ==
    [calculateBill(h[ref], optRule) EXCEPT !.socData = ref]

\* reconcileData on the record objects refs
reconcileRefs(h, refs, rules) ==
    LET rulesMap == BuildRulesMap(rules, Len(rules))
    IN  [i \in 1..Len(refs) |-> BillOfRef(h, refs[i], LookupRule(h[refs[i]], rulesMap))]

\* prev.map(...) of handleUpdate on the first k items: the heap and the new array
RECURSIVE UpdateRefs(_, _, _, _, _)
UpdateRefs(h, prev, id, newEmployees, k) ==
    IF k = 0 THEN [heap |-> h, out |-> <<>>]
    ELSE LET p == UpdateRefs(h, prev, id, newEmployees, k - 1)
             item == prev[k]
         IN  IF p.heap[item.socData].cnpj = id
             THEN LET a == AllocSoc(p.heap, item.socData, newEmployees)
                  IN  [heap |-> a.heap,
                       out |-> Append(p.out, BillOfRef(a.heap, a.ref, item.pricingRule))]
             ELSE [heap |-> p.heap, out |-> Append(p.out, item)]

\* prev.filter(item => item.socData.cnpj !== cnpj) on objects
DeleteRefs(h, prev, id) ==
    LET Keep(item) == h[item.socData].cnpj # id
    IN  SelectSeq(prev, Keep)

---------------------------------------------------------------------------
(* geminiService.ts: analyzeBilling.  A string is a TLA+ string; response.text
   is a sequence of length 0 (undefined) or 1; a promise settles as a record *)

NoTextFallback == "Não foi possível gerar a análise no momento."
ErrorFallback == "Erro ao conectar com a IA para análise."

Fulfilled(text) == [kind |-> "fulfilled", text |-> text]
Rejected == [kind |-> "rejected", text |-> <<>>]

\* response.text || "..." : undefined and the empty string are falsy
TextOr(text, fallback) ==
    IF text # <<>> /\ text[1] # "" THEN text[1] ELSE fallback

\* mutant of analyzeBillingSettle: without the try/catch the failure of the
\* call is the failure of analyzeBilling
analyzeBillingSettle_NoCatch(response) ==
    IF response.kind = "rejected"
        THEN Rejected
        ELSE Fulfilled(<<TextOr(response.text, NoTextFallback)>>)

\* how the promise of analyzeBilling settles once generateContent has settled
\* as response
analyzeBillingSettle(response) ==
    IF response.kind = "rejected"
        THEN Fulfilled(<<ErrorFallback>>)
        ELSE Fulfilled(<<TextOr(response.text, NoTextFallback)>>)

---------------------------------------------------------------------------
(* ResultsTable.tsx *)

\* the useState initial values: no search term, every status, sorted by
\* status ascending, no row being edited (editingCnpj null is <<>>)
InitialTable ==
    [searchTerm |-> <<>>,
     statusFilter |-> "ALL",
     sortConfig |-> [key |-> "status", direction |-> "asc"],
     editingCnpj |-> <<>>,
     editValue |-> Num(0)]

\* the characters of the company names, for toLowerCase and includes
NameChars(name) ==
    CASE name = "Alpha" -> <<"A", "l", "p", "h", "a">>
      [] name = "Beta" -> <<"B", "e", "t", "a">>
      [] name = "Gamma" -> <<"G", "a", "m", "m", "a">>
      [] OTHER -> <<>>

Alphabet ==
    <<"a", "b", "c", "d", "e", "f", "g", "h", "i", "j", "k", "l", "m", "n", "o",
      "p", "q", "r", "s", "t", "u", "v", "w", "x", "y", "z">>
UpperCase ==
    <<"A", "B", "C", "D", "E", "F", "G", "H", "I", "J", "K", "L", "M", "N", "O",
      "P", "Q", "R", "S", "T", "U", "V", "W", "X", "Y", "Z">>

LowerChar(c) ==
    IF \E i \in DOMAIN UpperCase : UpperCase[i] = c
    THEN Alphabet[CHOOSE i \in DOMAIN UpperCase : UpperCase[i] = c]
    ELSE c

toLowerCase(s) == [i \in 1..Len(s) |-> LowerChar(s[i])]

\* s.includes(t)
Includes(s, t) ==
    \E k \in 0..(Len(s) - Len(t)) : SubSeq(s, k + 1, k + Len(t)) = t

\* the order of the letters; the names compared hold letters only
CharRank(c) == CHOOSE i \in DOMAIN Alphabet : Alphabet[i] = c

\* s < t on strings of lower-case letters
RECURSIVE StringLess(_, _)
StringLess(s, t) ==
    IF t = <<>> THEN FALSE
    ELSE IF s = <<>> THEN TRUE
    ELSE IF s[1] # t[1] THEN CharRank(s[1]) < CharRank(t[1])
    ELSE StringLess(Tail(s), Tail(t))

\* a < b on numbers: false when either is NaN
NumLess(a, b) == IsNum(a) /\ IsNum(b) /\ a.n < b.n

\* step 1 of processedResults: the search term, when not empty
SearchFilter(data, searchTerm) ==
    LET lowerTerm == toLowerCase(searchTerm)
        Match(item) == \/ Includes(toLowerCase(NameChars(item.socData.companyName)), lowerTerm)
                       \/ Includes(item.socData.cnpj, lowerTerm)
    IN  IF searchTerm # <<>> THEN SelectSeq(data, Match) ELSE data

\* step 1 of processedResults: the status filter, when not 'ALL'
StatusFilter(data, statusFilter) ==
    LET Match(item) == IF statusFilter = "READY" THEN item.status = "READY"
                                                 ELSE item.status # "READY"
    IN  IF statusFilter # "ALL" THEN SelectSeq(data, Match) ELSE data

\* valA < valB for the sort key
KeyLess(a, b, key) ==
    CASE key = "companyName" ->
             StringLess(toLowerCase(NameChars(a.socData.companyName)),
                        toLowerCase(NameChars(b.socData.companyName)))
      [] key = "activeEmployees" -> NumLess(a.socData.activeEmployees, b.socData.activeEmployees)
      [] key = "calculatedAmount" -> NumLess(a.calculatedAmount, b.calculatedAmount)
      [] key = "status" -> (a.status # "READY") /\ (b.status = "READY")
      [] OTHER -> FALSE

\* the comparator given to data.sort
Compare(a, b, sortConfig) ==
    IF KeyLess(a, b, sortConfig.key) THEN (IF sortConfig.direction = "asc" THEN -1 ELSE 1)
    ELSE IF KeyLess(b, a, sortConfig.key) THEN (IF sortConfig.direction = "asc" THEN 1 ELSE -1)
    ELSE 0

\* data.sort(comparator) on the first k items: the sort is stable, an item
\* goes after the items that do not come after it (keys are never NaN here)
RECURSIVE SortPrefix(_, _, _)
SortPrefix(data, k, sortConfig) ==
    IF k = 0 THEN <<>>
    ELSE LET sorted == SortPrefix(data, k - 1, sortConfig)
             x == data[k]
             p == Cardinality({i \in DOMAIN sorted : Compare(sorted[i], x, sortConfig) <= 0})
         IN  SubSeq(sorted, 1, p) \o <<x>> \o SubSeq(sorted, p + 1, Len(sorted))

processedResults(res, t) ==
    LET data == StatusFilter(SearchFilter(res, t.searchTerm), t.statusFilter)
    IN  SortPrefix(data, Len(data), t.sortConfig)

getRuleLabel(optRule) ==
    IF optRule = <<>> THEN "-"
    ELSE CASE optRule[1].model = "TIERED" -> "Escalonado"
           [] optRule[1].model = "PER_HEAD_MIN" -> "Mínimo/Vidas"
           [] optRule[1].model = "FLAT" -> "Valor Fixo"
           [] OTHER -> "-"

\* dataToExport of exportToCSV: one row of the sheet per item given
ExportRow(item) ==
    [Status |-> IF item.status = "READY" THEN "Pronto" ELSE "Erro",
     CNPJ |-> item.socData.cnpj,
     Empresa |-> item.socData.companyName,
     FuncionariosAtivos |-> item.socData.activeEmployees,
     ModeloDePreco |-> getRuleLabel(item.pricingRule),
     DetalhesDoCalculo |-> item.details,
     ValorTotal |-> item.calculatedAmount]

dataToExport(rows) == [i \in 1..Len(rows) |-> ExportRow(rows[i])]

\* if (editingCnpj): null and the empty string are falsy
IsEditingSet(t) == t.editingCnpj # <<>> /\ t.editingCnpj[1] # <<>>

\* editingCnpj === item.socData.cnpj
IsEditing(t, item) == t.editingCnpj = <<item.socData.cnpj>>

startEditing(t, item) ==
    [t EXCEPT !.editingCnpj = <<item.socData.cnpj>>,
              !.editValue = item.socData.activeEmployees]

cancelEditing(t) == [t EXCEPT !.editingCnpj = <<>>, !.editValue = Num(0)]

\* the calls cancelEditing makes on the props
cancelEditingCalls(t) == <<>>

\* the calls saveEditing makes on the props
saveEditingCalls(t) ==
    IF IsEditingSet(t)
    THEN <<[fn |-> "onUpdate", cnpj |-> t.editingCnpj[1], value |-> t.editValue]>>
    ELSE <<>>

saveEditing(t) ==
    IF IsEditingSet(t) THEN [t EXCEPT !.editingCnpj = <<>>] ELSE t

\* the App's handlers behind the props, applied to the calls in order
RECURSIVE ApplyCalls(_, _)
ApplyCalls(res, cs) ==
    IF cs = <<>> THEN res
    ELSE LET c == cs[1]
             next == IF c.fn = "onUpdate" THEN handleUpdateResults(res, c.cnpj, c.value)
                                          ELSE handleDeleteResults(res, c.cnpj)
         IN  ApplyCalls(next, Tail(cs))

---------------------------------------------------------------------------
(* geminiService.ts: the prompt of analyzeBilling *)

SampleLimit == 30

\* mutant of successfulBills: every result taken
successfulBills_All(res) == res

\* results.filter(r => r.status === 'READY')
successfulBills(res) ==
    LET IsReady(r) == r.status = "READY"
    IN  SelectSeq(res, IsReady)

\* reduce((acc, curr) => acc + curr.calculatedAmount, 0) on the first k bills
RECURSIVE SumAmounts(_, _)
SumAmounts(bills, k) ==
    IF k = 0 THEN Num(0) ELSE Add(SumAmounts(bills, k - 1), bills[k].calculatedAmount)

\* totalRev.toFixed(2): the digits before and after the point, of a whole number
toFixed2(x) == IF IsNum(x) THEN <<x.n, "00">> ELSE <<"NaN">>

summaryData(bills) ==
    [i \in 1..Len(bills) |->
        [company |-> bills[i].socData.companyName,
         employees |-> bills[i].socData.activeEmployees,
         amount |-> bills[i].calculatedAmount,
         details |-> bills[i].details]]

\* summaryData.slice(0, 30)
Slice30(s) == SubSeq(s, 1, IF Len(s) < SampleLimit THEN Len(s) ELSE SampleLimit)

\* what the prompt is filled with: total, number of companies, sample
BuildPrompt(res) ==
    LET bills == successfulBills(res)
    IN  [total |-> toFixed2(SumAmounts(bills, Len(bills))),
         count |-> Len(bills),
         sample |-> Slice30(summaryData(bills))]

---------------------------------------------------------------------------
(* DataInputSection.tsx: processData.  A text is a sequence of one-character
   strings; a destructured field is a sequence of length 0 (undefined) or 1 *)

IsSpace(c) == c \in {" ", "\n"}

RECURSIVE TrimStart(_)
TrimStart(s) == IF s # <<>> /\ IsSpace(s[1]) THEN TrimStart(Tail(s)) ELSE s

RECURSIVE TrimEnd(_)
TrimEnd(s) ==
    IF s # <<>> /\ IsSpace(s[Len(s)]) THEN TrimEnd(SubSeq(s, 1, Len(s) - 1)) ELSE s

\* s.trim()
Trim(s) == TrimEnd(TrimStart(s))

\* s.split(sep): always at least one piece
RECURSIVE Split(_, _)
Split(s, sep) ==
    IF \A i \in DOMAIN s : s[i] # sep THEN <<s>>
    ELSE LET k == CHOOSE i \in DOMAIN s : s[i] = sep /\ \A j \in 1..(i - 1) : s[j] # sep
         IN  <<SubSeq(s, 1, k - 1)>> \o Split(SubSeq(s, k + 1, Len(s)), sep)

\* const [a, b, ...] = fields: the i-th, undefined past the end
Field(fields, i) == IF i <= Len(fields) THEN <<fields[i]>> ELSE <<>>

\* !field : undefined and the empty string are falsy
IsFalsy(field) == field = <<>> \/ field[1] = <<>>

\* field?.trim()
OptTrim(field) == IF field = <<>> THEN <<>> ELSE <<Trim(field[1])>>

\* field || fallback
OrText(field, fallback) == IF IsFalsy(field) THEN fallback ELSE field[1]

DigitValue(c) ==
    CASE c = "0" -> 0 [] c = "1" -> 1 [] c = "2" -> 2 [] c = "3" -> 3 [] c = "4" -> 4
      [] c = "5" -> 5 [] c = "6" -> 6 [] c = "7" -> 7 [] c = "8" -> 8 [] c = "9" -> 9

\* the digits s starts with
RECURSIVE LeadingDigits(_)
LeadingDigits(s) ==
    IF s # <<>> /\ IsDigit(s[1]) THEN <<s[1]>> \o LeadingDigits(Tail(s)) ELSE <<>>

RECURSIVE DecimalValue(_)
DecimalValue(ds) ==
    IF ds = <<>> THEN 0
    ELSE 10 * DecimalValue(SubSeq(ds, 1, Len(ds) - 1)) + DigitValue(ds[Len(ds)])

\* parseInt(s, 10) and parseFloat(s) of a text without sign, point or
\* exponent: leading white space skipped, the leading digits read, NaN if none
ParseNumber(s) ==
    LET ds == LeadingDigits(TrimStart(s))
    IN  IF ds = <<>> THEN NaN ELSE Num(DecimalValue(ds))

Desconhecida == <<"D", "e", "s", "c", "o", "n", "h", "e", "c", "i", "d", "a">>

\* the model field as a PricingModel string; any other text is kept apart
\* from the three models the switch knows
ModelOf(field) ==
    IF field = <<>> THEN "undefined"
    ELSE CASE field[1] = <<"T", "I", "E", "R", "E", "D">> -> "TIERED"
           [] field[1] = <<"F", "L", "A", "T">> -> "FLAT"
           [] OTHER -> "UNKNOWN"

\* one company row: null (<<>>) when the first field is falsy
SocOfLine(line) ==
    LET fields == Split(line, ",")
    IN  IF IsFalsy(Field(fields, 1)) THEN <<>>
        ELSE <<[cnpj |-> OptTrim(Field(fields, 1))[1],
                companyName |-> OrText(OptTrim(Field(fields, 2)), Desconhecida),
                activeEmployees |-> ParseNumber(OrText(OptTrim(Field(fields, 3)), <<"0">>))]>>

\* one pricing row: null (<<>>) when the first field is falsy
RuleOfLine(line) ==
    LET fields == Split(line, ",")
    IN  IF IsFalsy(Field(fields, 1)) THEN <<>>
        ELSE <<[cnpj |-> OptTrim(Field(fields, 1))[1],
                model |-> ModelOf(OptTrim(Field(fields, 2))),
                basePrice |-> ParseNumber(OrText(Field(fields, 3), <<"0">>)),
                includedEmployees |-> ParseNumber(OrText(Field(fields, 4), <<"0">>)),
                excessPrice |-> ParseNumber(OrText(Field(fields, 5), <<"0">>)),
                minEmployees |-> ParseNumber(OrText(Field(fields, 6), <<"0">>))]>>

\* lines.map(f).filter(x => x !== null) on the first k lines
RECURSIVE SocsOfLines(_, _)
SocsOfLines(lines, k) ==
    IF k = 0 THEN <<>> ELSE SocsOfLines(lines, k - 1) \o SocOfLine(lines[k])

RECURSIVE RulesOfLines(_, _)
RulesOfLines(lines, k) ==
    IF k = 0 THEN <<>> ELSE RulesOfLines(lines, k - 1) \o RuleOfLine(lines[k])

ParseSoc(text) ==
    LET socLines == Split(Trim(text), "\n")
    IN  SocsOfLines(socLines, Len(socLines))

ParsePricing(text) ==
    LET pricingLines == Split(Trim(text), "\n")
    IN  RulesOfLines(pricingLines, Len(pricingLines))

---------------------------------------------------------------------------
(* App.tsx: the totals of the dashboard *)

\* results.reduce((acc, curr) => acc + curr.calculatedAmount, 0) on the first k
RECURSIVE RevenuePrefix(_, _)
RevenuePrefix(res, k) ==
    IF k = 0 THEN Num(0) ELSE Add(RevenuePrefix(res, k - 1), res[k].calculatedAmount)

totalRevenue(res) == RevenuePrefix(res, Len(res))

readyCount(res) ==
    LET IsReady(r) == r.status = "READY"
    IN  Len(SelectSeq(res, IsReady))

errorCount(res) ==
    LET IsError(r) == r.status # "READY"
    IN  Len(SelectSeq(res, IsError))

\* totalRev of analyzeBilling
totalRev(res) == SumAmounts(successfulBills(res), Len(successfulBills(res)))

---------------------------------------------------------------------------
(* Bounds and input sets *)

MaxEmployees == 3   \* largest employee count of a calculateBill call
MaxPrice == 2       \* largest price of a calculateBill call
MaxCnpjLen == 3     \* longest identifier given to cleanCnpj
MaxSoc == 2         \* longest record list given to reconcileData
MaxRules == 2       \* longest rule list given to reconcileData
MaxAppSoc == 2      \* longest record list loaded into the App
MaxNewCount == 2    \* largest count typed into the inline editor

MaxCalls == 3       \* number of reconcileData calls in a row

MaxHeap == 4        \* number of SocData objects allocated in a session

MaxPromptLen == 32  \* length of the results list given to analyzeBilling

MaxTextLen == 4     \* length of the text pasted into the import form

\* all sequences over S of length at most n
SeqsUpTo(S, n) == UNION {[1..k -> S] : k \in 0..n}

\* model?.trim() as PricingModel : any string of the pricing row
Models == PricingModel \cup {"UNKNOWN"}

\* parseInt / parseFloat results: an integer (possibly negative) or NaN
Counts == {Num(n) : n \in -1..MaxEmployees} \cup {NaN}
Prices == {Num(n) : n \in -1..MaxPrice} \cup {NaN}

BillSocs == [cnpj : {<<"1">>}, companyName : {"Alpha"}, activeEmployees : Counts]

BillRules ==
    [cnpj : {<<"1">>}, model : Models, basePrice : Prices,
     includedEmployees : Counts \cup {Undefined},
     excessPrice : Prices \cup {Undefined},
     minEmployees : Counts \cup {Undefined}]

Soc(id, name, n) == [cnpj |-> id, companyName |-> name, activeEmployees |-> Num(n)]

Rule(id, model, base, inc, exc, min) ==
    [cnpj |-> id, model |-> model, basePrice |-> base, includedEmployees |-> inc,
     excessPrice |-> exc, minEmployees |-> min]

\* the calls of the specification's section 8
ExampleCalls ==
    { <<Soc(<<"1">>, "Alpha", 4),
        <<Rule(<<"1">>, "TIERED", Num(129), Num(5), Undefined, Undefined)>> >>,
      <<Soc(<<"1">>, "Alpha", 8),
        <<Rule(<<"1">>, "TIERED", Num(129), Num(5), Num(12), Undefined)>> >>,
      <<Soc(<<"1">>, "Alpha", 15),
        <<Rule(<<"1">>, "PER_HEAD_MIN", Num(13), Undefined, Undefined, Num(10))>> >>,
      <<Soc(<<"1">>, "Alpha", 4),
        <<Rule(<<"1">>, "PER_HEAD_MIN", Num(13), Undefined, Undefined, Num(10))>> >>,
      <<Soc(<<"1">>, "Alpha", 7),
        <<Rule(<<"1">>, "FLAT", Num(500), Undefined, Undefined, Undefined)>> >> }

BillCalls ==
    (BillSocs \X ({<<>>} \cup {<<r>> : r \in BillRules})) \cup ExampleCalls

\* characters of an identifier: digits, CNPJ punctuation, a blank, a letter
Chars == {"0", "1", "9", ".", "/", "-", " ", "a"}

CnpjInputs == SeqsUpTo(Chars, MaxCnpjLen)

\* raw identifiers of the reconcileData calls: "12" and "1.2" normalize alike,
\* "-" and "a/" both normalize to the empty string
RawIds == {<<"1", "2">>, <<"1", ".", "2">>, <<"2", "1">>, <<"-">>, <<"a", "/">>}

ReconcileSocs == {Soc(id, "Alpha", n) : id \in RawIds, n \in {0, 3}}

ReconcileRules ==
    {Rule(id, "TIERED", Num(5), Num(1), Num(2), Num(0)) : id \in RawIds}
    \cup {Rule(id, "FLAT", Num(7), Num(0), Num(0), Num(0)) : id \in RawIds}

\* records and rule lists loaded into the App
AppCnpjs == {<<"1", "2">>, <<"1", ".", "2">>, <<"3">>}

AppSocs ==
    {Soc(<<"1", "2">>, "Alpha", 1), Soc(<<"1", ".", "2">>, "Beta", 3),
     Soc(<<"3">>, "Gamma", 0)}

AppRuleLists ==
    { <<>>,
      <<Rule(<<"1", "2">>, "TIERED", Num(1), Num(1), Num(2), Num(0))>>,
      <<Rule(<<"1", "2">>, "PER_HEAD_MIN", Num(3), Num(0), Num(0), Num(2))>>,
      <<Rule(<<"1", "2">>, "FLAT", Num(7), Num(0), Num(0), Num(0))>>,
      <<Rule(<<"1", "2">>, "UNKNOWN", Num(7), Num(1), Num(1), Num(1))>>,
      <<Rule(<<"1", "2">>, "TIERED", Num(1), Num(0), Num(-1), Num(0)),
        Rule(<<"3">>, "PER_HEAD_MIN", Num(3), NaN, NaN, Num(1))>> }

\* parseInt(e.target.value) || 0, or the row's own count
NewCounts == {Num(n) : n \in -1..MaxNewCount} \cup {NaN}

NoSoc == [cnpj |-> <<>>, companyName |-> "", activeEmployees |-> Num(0)]

---------------------------------------------------------------------------
(* The App: results, analysis and isAnalyzing under its handlers *)

Init ==
    /\ results = <<>>
    /\ analysis = <<>>
    /\ isAnalyzing = FALSE
    /\ rulesList = <<>>
    /\ socList = <<>>
    /\ socData = NoSoc
    /\ rule = <<>>
    /\ bill = <<>>
    /\ cnpj = <<>>
    /\ cleaned = <<>>
    /\ pc = "idle"
    /\ mapObj = <<>>
    /\ calls = <<>>
    /\ heap = <<>>
    /\ pending = <<>>
    /\ table = InitialTable
    /\ exported = <<>>
    /\ propCalls = <<>>
    /\ socText = <<>>
    /\ pricingText = <<>>
    /\ prompt = <<>>

HandleDataLoaded(socs, rules) ==
    /\ results' = reconcileData(socs, rules)
    /\ analysis' = <<>>
    /\ rulesList' = rules
    /\ UNCHANGED <<isAnalyzing, socList, socData, rule, bill, cnpj, cleaned, pc>>
    /\ UNCHANGED <<mapObj, calls, heap, pending>>
    /\ UNCHANGED uiVars

HandleDelete(id) ==
    /\ results' = handleDeleteResults(results, id)
    /\ analysis' = <<>>
    /\ UNCHANGED <<isAnalyzing, rulesList, socList, socData, rule, bill, cnpj,
                   cleaned, pc>>
    /\ UNCHANGED <<mapObj, calls, heap, pending>>
    /\ UNCHANGED uiVars

HandleUpdate(id, newEmployees) ==
    /\ results' = handleUpdateResults(results, id, newEmployees)
    /\ analysis' = <<>>
    /\ UNCHANGED <<isAnalyzing, rulesList, socList, socData, rule, bill, cnpj,
                   cleaned, pc>>
    /\ UNCHANGED <<mapObj, calls, heap, pending>>
    /\ UNCHANGED uiVars

Next ==
    \/ \E socs \in SeqsUpTo(AppSocs, MaxAppSoc), rules \in AppRuleLists :
          HandleDataLoaded(socs, rules)
    \/ \E id \in AppCnpjs : HandleDelete(id)
    \/ \E id \in AppCnpjs, n \in NewCounts : HandleUpdate(id, n)

Spec == Init /\ [][Next]_vars

---------------------------------------------------------------------------
(* One calculateBill call *)

InitBill ==
    /\ results = <<>>
    /\ analysis = <<>>
    /\ isAnalyzing = FALSE
    /\ rulesList = <<>>
    /\ socList = <<>>
    /\ \E c \in BillCalls : socData = c[1] /\ rule = c[2]
    /\ bill = <<>>
    /\ cnpj = <<>>
    /\ cleaned = <<>>
    /\ pc = "call"
    /\ mapObj = <<>>
    /\ calls = <<>>
    /\ heap = <<>>
    /\ pending = <<>>
    /\ table = InitialTable
    /\ exported = <<>>
    /\ propCalls = <<>>
    /\ socText = <<>>
    /\ pricingText = <<>>
    /\ prompt = <<>>

CalculateBillCall ==
    /\ pc = "call"
    /\ bill' = <<calculateBill(socData, rule)>>
    /\ pc' = "return"
    /\ UNCHANGED <<results, analysis, isAnalyzing, rulesList, socList, socData,
                   rule, cnpj, cleaned>>
    /\ UNCHANGED <<mapObj, calls, heap, pending>>
    /\ UNCHANGED uiVars

NextBill == CalculateBillCall

SpecBill == InitBill /\ [][NextBill]_vars

---------------------------------------------------------------------------
(* One cleanCnpj call *)

InitCnpj ==
    /\ results = <<>>
    /\ analysis = <<>>
    /\ isAnalyzing = FALSE
    /\ rulesList = <<>>
    /\ socList = <<>>
    /\ socData = NoSoc
    /\ rule = <<>>
    /\ bill = <<>>
    /\ cnpj \in CnpjInputs
    /\ cleaned = <<>>
    /\ pc = "call"
    /\ mapObj = <<>>
    /\ calls = <<>>
    /\ heap = <<>>
    /\ pending = <<>>
    /\ table = InitialTable
    /\ exported = <<>>
    /\ propCalls = <<>>
    /\ socText = <<>>
    /\ pricingText = <<>>
    /\ prompt = <<>>

CleanCnpjCall ==
    /\ pc = "call"
    /\ cleaned' = cleanCnpj(cnpj)
    /\ pc' = "return"
    /\ UNCHANGED <<results, analysis, isAnalyzing, rulesList, socList, socData,
                   rule, bill, cnpj>>
    /\ UNCHANGED <<mapObj, calls, heap, pending>>
    /\ UNCHANGED uiVars

NextCnpj == CleanCnpjCall

SpecCnpj == InitCnpj /\ [][NextCnpj]_vars

---------------------------------------------------------------------------
(* One reconcileData call *)

InitReconcile ==
    /\ results = <<>>
    /\ analysis = <<>>
    /\ isAnalyzing = FALSE
    /\ rulesList \in SeqsUpTo(ReconcileRules, MaxRules)
    /\ socList \in SeqsUpTo(ReconcileSocs, MaxSoc)
    /\ socData = NoSoc
    /\ rule = <<>>
    /\ bill = <<>>
    /\ cnpj = <<>>
    /\ cleaned = <<>>
    /\ pc = "call"
    /\ mapObj = <<>>
    /\ calls = <<>>
    /\ heap = <<>>
    /\ pending = <<>>
    /\ table = InitialTable
    /\ exported = <<>>
    /\ propCalls = <<>>
    /\ socText = <<>>
    /\ pricingText = <<>>
    /\ prompt = <<>>

ReconcileCall ==
    /\ pc = "call"
    /\ results' = reconcileData(socList, rulesList)
    /\ pc' = "return"
    /\ UNCHANGED <<analysis, isAnalyzing, rulesList, socList, socData, rule, bill,
                   cnpj, cleaned>>
    /\ UNCHANGED <<mapObj, calls, heap, pending>>
    /\ UNCHANGED uiVars

NextReconcile == ReconcileCall

SpecReconcile == InitReconcile /\ [][NextReconcile]_vars

---------------------------------------------------------------------------
(* Several calls in a row: reconcileData with its Map object, calculateBill
   and handleUpdate between them *)

CallSocLists ==
    { <<Soc(<<"1", "2">>, "Alpha", 1)>>,
      <<Soc(<<"1", ".", "2">>, "Beta", 3), Soc(<<"3">>, "Gamma", 0)>> }

CallRuleLists ==
    { <<>>,
      <<Rule(<<"1", "2">>, "TIERED", Num(1), Num(1), Num(2), Num(0))>>,
      <<Rule(<<"1", ".", "2">>, "FLAT", Num(7), Num(0), Num(0), Num(0))>> }

InitCalls ==
    /\ results = <<>>
    /\ analysis = <<>>
    /\ isAnalyzing = FALSE
    /\ rulesList = <<>>
    /\ socList = <<>>
    /\ socData = NoSoc
    /\ rule = <<>>
    /\ bill = <<>>
    /\ cnpj = <<>>
    /\ cleaned = <<>>
    /\ pc = "idle"
    /\ mapObj = <<>>
    /\ calls = <<>>
    /\ heap = <<>>
    /\ pending = <<>>
    /\ table = InitialTable
    /\ exported = <<>>
    /\ propCalls = <<>>
    /\ socText = <<>>
    /\ pricingText = <<>>
    /\ prompt = <<>>

ReconcileInvoke(socs, rules) ==
    /\ Len(calls) < MaxCalls
    /\ mapObj' = SetAll(NewRulesMap(mapObj), rules)
    /\ results' = PriceAll(socs, mapObj')
    /\ socList' = socs
    /\ rulesList' = rules
    /\ calls' = Append(calls, [socs |-> socs, rules |-> rules, ret |-> results'])
    /\ UNCHANGED <<analysis, isAnalyzing, socData, rule, bill, cnpj, cleaned, pc,
                   heap, pending>>
    /\ UNCHANGED uiVars

CalculateBillInvoke(soc, optRule) ==
    /\ socData' = soc
    /\ rule' = optRule
    /\ bill' = <<calculateBill(soc, optRule)>>
    /\ UNCHANGED <<results, analysis, isAnalyzing, rulesList, socList, cnpj,
                   cleaned, pc, mapObj, calls, heap, pending>>
    /\ UNCHANGED uiVars

UpdateInvoke(id, newEmployees) ==
    /\ results' = handleUpdateResults(results, id, newEmployees)
    /\ UNCHANGED <<analysis, isAnalyzing, rulesList, socList, socData, rule, bill,
                   cnpj, cleaned, pc, mapObj, calls, heap, pending>>
    /\ UNCHANGED uiVars

NextCalls ==
    \/ \E socs \in CallSocLists, rules \in CallRuleLists : ReconcileInvoke(socs, rules)
    \/ \E rules \in CallRuleLists \ {<<>>} :
          CalculateBillInvoke(Soc(<<"3">>, "Gamma", 2), rules)
    \/ UpdateInvoke(<<"1", "2">>, Num(2))

SpecCalls == InitCalls /\ [][NextCalls]_vars

---------------------------------------------------------------------------
(* The App on objects: which SocData objects the handlers create and change *)

HeapSocLists ==
    CallSocLists
    \cup { <<Soc(<<"1", "2">>, "Alpha", 1), Soc(<<"1", "2">>, "Alpha", 1)>>,
           <<Soc(<<"1", "2">>, "Alpha", 1), Soc(<<"1", ".", "2">>, "Beta", 3)>> }

InitHeap ==
    /\ results = <<>>
    /\ analysis = <<>>
    /\ isAnalyzing = FALSE
    /\ rulesList = <<>>
    /\ socList = <<>>
    /\ socData = NoSoc
    /\ rule = <<>>
    /\ bill = <<>>
    /\ cnpj = <<>>
    /\ cleaned = <<>>
    /\ pc = "idle"
    /\ mapObj = <<>>
    /\ calls = <<>>
    /\ heap = <<>>
    /\ pending = <<>>
    /\ table = InitialTable
    /\ exported = <<>>
    /\ propCalls = <<>>
    /\ socText = <<>>
    /\ pricingText = <<>>
    /\ prompt = <<>>

\* processData builds the record objects, handleDataLoaded reconciles them
HeapDataLoaded(socs, rules) ==
    /\ Len(heap) + Len(socs) <= MaxHeap
    /\ heap' = heap \o socs
    /\ socList' = [i \in 1..Len(socs) |-> Len(heap) + i]
    /\ rulesList' = rules
    /\ results' = reconcileRefs(heap', socList', rules)
    /\ analysis' = <<>>
    /\ UNCHANGED <<isAnalyzing, socData, rule, bill, cnpj, cleaned, pc, mapObj,
                   calls, pending>>
    /\ UNCHANGED uiVars

HeapDelete(id) ==
    /\ results' = DeleteRefs(heap, results, id)
    /\ analysis' = <<>>
    /\ UNCHANGED <<isAnalyzing, rulesList, socList, socData, rule, bill, cnpj,
                   cleaned, pc, mapObj, calls, heap, pending>>
    /\ UNCHANGED uiVars

HeapUpdate(id, newEmployees) ==
    /\ Len(heap) + Len(results) <= MaxHeap
    /\ LET u == UpdateRefs(heap, results, id, newEmployees, Len(results))
       IN  heap' = u.heap /\ results' = u.out
    /\ analysis' = <<>>
    /\ UNCHANGED <<isAnalyzing, rulesList, socList, socData, rule, bill, cnpj,
                   cleaned, pc, mapObj, calls, pending>>
    /\ UNCHANGED uiVars

NextHeap ==
    \/ \E socs \in HeapSocLists, rules \in CallRuleLists : HeapDataLoaded(socs, rules)
    \/ \E id \in AppCnpjs : HeapDelete(id)
    \/ \E id \in AppCnpjs, n \in NewCounts : HeapUpdate(id, n)

SpecHeap == InitHeap /\ [][NextHeap]_vars

---------------------------------------------------------------------------
(* The App with report generation: a request in flight is the one element of
   pending, with the results it was started on and, once analyzeBilling has
   settled, its outcome.  analysis holds the report text and the results the
   prompt was built from *)

LlmResponses ==
    { Fulfilled(<<"Relatório">>), Fulfilled(<<"">>), Fulfilled(<<>>), Rejected }

ReportCounts == { Num(2) }

InitReport ==
    /\ results = <<>>
    /\ analysis = <<>>
    /\ isAnalyzing = FALSE
    /\ rulesList = <<>>
    /\ socList = <<>>
    /\ socData = NoSoc
    /\ rule = <<>>
    /\ bill = <<>>
    /\ cnpj = <<>>
    /\ cleaned = <<>>
    /\ pc = "idle"
    /\ mapObj = <<>>
    /\ calls = <<>>
    /\ heap = <<>>
    /\ pending = <<>>
    /\ table = InitialTable
    /\ exported = <<>>
    /\ propCalls = <<>>
    /\ socText = <<>>
    /\ pricingText = <<>>
    /\ prompt = <<>>

\* the button is rendered when results.length > 0 and disabled while
\* isAnalyzing; analyzeBilling runs up to its await on the results of the render
GenerateReport ==
    /\ results # <<>>
    /\ ~isAnalyzing
    /\ isAnalyzing' = TRUE
    /\ pending' = <<[results |-> results, settled |-> <<>>]>>
    /\ UNCHANGED <<results, analysis, rulesList, socList, socData, rule, bill,
                   cnpj, cleaned, pc, mapObj, calls, heap>>
    /\ UNCHANGED uiVars

\* generateContent settles and analyzeBilling runs to its return
LlmSettle(response) ==
    /\ pending # <<>>
    /\ pending[1].settled = <<>>
    /\ pending' = <<[pending[1] EXCEPT !.settled = <<analyzeBillingSettle(response)>>]>>
    /\ UNCHANGED <<results, analysis, isAnalyzing, rulesList, socList, socData,
                   rule, bill, cnpj, cleaned, pc, mapObj, calls, heap>>
    /\ UNCHANGED uiVars

\* generateReport resumes after its await: only a fulfilled promise resumes it
ReportDone ==
    /\ pending # <<>>
    /\ pending[1].settled # <<>>
    /\ pending[1].settled[1].kind = "fulfilled"
    /\ analysis' = <<[text |-> pending[1].settled[1].text[1],
                      results |-> pending[1].results]>>
    /\ isAnalyzing' = FALSE
    /\ pending' = <<>>
    /\ UNCHANGED <<results, rulesList, socList, socData, rule, bill, cnpj,
                   cleaned, pc, mapObj, calls, heap>>
    /\ UNCHANGED uiVars

NextReport ==
    \/ \E socs \in CallSocLists, rules \in CallRuleLists : HandleDataLoaded(socs, rules)
    \/ \E id \in AppCnpjs : HandleDelete(id)
    \/ \E id \in AppCnpjs, n \in ReportCounts : HandleUpdate(id, n)
    \/ GenerateReport
    \/ \E response \in LlmResponses : LlmSettle(response)
    \/ ReportDone

\* the call to the LLM settles, and a settled promise resumes its awaiter
SpecReport ==
    /\ InitReport
    /\ [][NextReport]_vars
    /\ WF_vars(\E response \in LlmResponses : LlmSettle(response))
    /\ WF_vars(ReportDone)

---------------------------------------------------------------------------
(* The App beside the record lists its results stand for: heap holds the
   records given to the last reconcile, socList those records with the deleted
   ones removed and the updated counts applied *)

DeleteRecords(socs, id) ==
    LET Keep(soc) == soc.cnpj # id
    IN  SelectSeq(socs, Keep)

UpdateRecords(socs, id, newEmployees) ==
    [i \in 1..Len(socs) |->
        IF socs[i].cnpj = id THEN NewSocData(socs[i], newEmployees) ELSE socs[i]]

\* the record lists loaded: empty, single, a pair sharing a normalized
\* identifier, a repeated record, and three records with a repeated identifier
EditSocLists ==
    LET A == Soc(<<"1", "2">>, "Alpha", 1)
        B == Soc(<<"1", ".", "2">>, "Beta", 3)
        G == Soc(<<"3">>, "Gamma", 0)
    IN  { <<>>, <<A>>, <<A, B>>, <<B, G>>, <<A, A>>, <<A, B, G>>, <<B, A, B>> }

InitEdit ==
    /\ results = <<>>
    /\ analysis = <<>>
    /\ isAnalyzing = FALSE
    /\ rulesList = <<>>
    /\ socList = <<>>
    /\ socData = NoSoc
    /\ rule = <<>>
    /\ bill = <<>>
    /\ cnpj = <<>>
    /\ cleaned = <<>>
    /\ pc = "idle"
    /\ mapObj = <<>>
    /\ calls = <<>>
    /\ heap = <<>>
    /\ pending = <<>>
    /\ table = InitialTable
    /\ exported = <<>>
    /\ propCalls = <<>>
    /\ socText = <<>>
    /\ pricingText = <<>>
    /\ prompt = <<>>

EditDataLoaded(socs, rules) ==
    /\ results' = reconcileData(socs, rules)
    /\ analysis' = <<>>
    /\ rulesList' = rules
    /\ heap' = socs
    /\ socList' = socs
    /\ pc' = "loaded"
    /\ UNCHANGED <<isAnalyzing, socData, rule, bill, cnpj, cleaned, mapObj, calls,
                   pending>>
    /\ UNCHANGED uiVars

EditDelete(id) ==
    /\ results' = handleDeleteResults(results, id)
    /\ analysis' = <<>>
    /\ socList' = DeleteRecords(socList, id)
    /\ pc' = "deleted"
    /\ UNCHANGED <<isAnalyzing, rulesList, socData, rule, bill, cnpj, cleaned,
                   mapObj, calls, heap, pending>>
    /\ UNCHANGED uiVars

EditUpdate(id, newEmployees) ==
    /\ results' = handleUpdateResults(results, id, newEmployees)
    /\ analysis' = <<>>
    /\ socList' = UpdateRecords(socList, id, newEmployees)
    /\ pc' = "updated"
    /\ UNCHANGED <<isAnalyzing, rulesList, socData, rule, bill, cnpj, cleaned,
                   mapObj, calls, heap, pending>>
    /\ UNCHANGED uiVars

NextEdit ==
    \/ \E socs \in EditSocLists, rules \in AppRuleLists : EditDataLoaded(socs, rules)
    \/ \E id \in AppCnpjs : EditDelete(id)
    \/ \E id \in AppCnpjs, n \in NewCounts : EditUpdate(id, n)

SpecEdit == InitEdit /\ [][NextEdit]_vars

---------------------------------------------------------------------------
(* The results table inside the App: the table is mounted while results is not
   empty, and its onUpdate / onDelete props are the App's handlers *)

\* the last list holds a record whose identifier is the empty string, the
\* record processData builds from a row whose first field is blank
TableSocLists ==
    LET A == Soc(<<"1", "2">>, "Alpha", 1)
        B == Soc(<<"1", ".", "2">>, "Beta", 3)
        G == Soc(<<"3">>, "Gamma", 0)
        E == Soc(<<>>, "Gamma", 2)
    IN  { <<A, B, G>>, <<E, A>> }

SearchTerms == { <<>>, <<"B">> }
StatusFilters == { "ALL", "READY", "ERROR" }
SortKeys == { "status", "companyName", "activeEmployees", "calculatedAmount" }

\* parseInt(e.target.value) || 0
EditValues == { Num(2) }

\* the table's state after the App has rendered res: a table that is not
\* rendered loses its state
Remount(t, res) == IF res = <<>> THEN InitialTable ELSE t

InitTable ==
    /\ results = <<>>
    /\ analysis = <<>>
    /\ isAnalyzing = FALSE
    /\ rulesList = <<>>
    /\ socList = <<>>
    /\ socData = NoSoc
    /\ rule = <<>>
    /\ bill = <<>>
    /\ cnpj = <<>>
    /\ cleaned = <<>>
    /\ pc = "idle"
    /\ mapObj = <<>>
    /\ calls = <<>>
    /\ heap = <<>>
    /\ pending = <<>>
    /\ table = InitialTable
    /\ exported = <<>>
    /\ propCalls = <<>>
    /\ socText = <<>>
    /\ pricingText = <<>>
    /\ prompt = <<>>

\* what no table handler changes
TableFrame ==
    UNCHANGED <<isAnalyzing, socList, socData, rule, bill, cnpj, cleaned, pc, mapObj,
                calls, heap, pending, socText, pricingText, prompt>>

TableDataLoaded(socs, rules) ==
    /\ results' = reconcileData(socs, rules)
    /\ analysis' = <<>>
    /\ rulesList' = rules
    /\ table' = Remount(table, results')
    /\ exported' = <<>>
    /\ propCalls' = <<>>
    /\ TableFrame

SetSearchTerm(term) ==
    /\ results # <<>>
    /\ table' = [table EXCEPT !.searchTerm = term]
    /\ exported' = <<>>
    /\ propCalls' = <<>>
    /\ UNCHANGED <<results, analysis, rulesList>>
    /\ TableFrame

SetStatusFilter(f) ==
    /\ results # <<>>
    /\ table' = [table EXCEPT !.statusFilter = f]
    /\ exported' = <<>>
    /\ propCalls' = <<>>
    /\ UNCHANGED <<results, analysis, rulesList>>
    /\ TableFrame

HandleSort(key) ==
    /\ results # <<>>
    /\ table' = [table EXCEPT !.sortConfig =
                    [key |-> key,
                     direction |-> IF table.sortConfig.key = key
                                      /\ table.sortConfig.direction = "asc"
                                   THEN "desc" ELSE "asc"]]
    /\ exported' = <<>>
    /\ propCalls' = <<>>
    /\ UNCHANGED <<results, analysis, rulesList>>
    /\ TableFrame

\* the edit button of row i of the rows shown; a row in edit mode has none
StartEditing(i) ==
    /\ i \in DOMAIN processedResults(results, table)
    /\ ~IsEditing(table, processedResults(results, table)[i])
    /\ table' = startEditing(table, processedResults(results, table)[i])
    /\ exported' = <<>>
    /\ propCalls' = <<>>
    /\ UNCHANGED <<results, analysis, rulesList>>
    /\ TableFrame

\* the input of a row in edit mode
ChangeEditValue(v) ==
    /\ \E i \in DOMAIN processedResults(results, table) :
          IsEditing(table, processedResults(results, table)[i])
    /\ table' = [table EXCEPT !.editValue = v]
    /\ exported' = <<>>
    /\ propCalls' = <<>>
    /\ UNCHANGED <<results, analysis, rulesList>>
    /\ TableFrame

\* cancelEditing, called in any state of a mounted table
CancelEditing ==
    /\ results # <<>>
    /\ propCalls' = cancelEditingCalls(table)
    /\ results' = ApplyCalls(results, propCalls')
    /\ analysis' = IF propCalls' = <<>> THEN analysis ELSE <<>>
    /\ table' = Remount(cancelEditing(table), results')
    /\ exported' = <<>>
    /\ UNCHANGED rulesList
    /\ TableFrame

\* saveEditing, called in any state of a mounted table
SaveEditing ==
    /\ results # <<>>
    /\ propCalls' = saveEditingCalls(table)
    /\ results' = ApplyCalls(results, propCalls')
    /\ analysis' = IF propCalls' = <<>> THEN analysis ELSE <<>>
    /\ table' = Remount(saveEditing(table), results')
    /\ exported' = <<>>
    /\ UNCHANGED rulesList
    /\ TableFrame

\* the delete button of row i of the rows shown, the confirm dialog accepted;
\* a row in edit mode has none
DeleteRow(i) ==
    /\ i \in DOMAIN processedResults(results, table)
    /\ ~IsEditing(table, processedResults(results, table)[i])
    /\ propCalls' = <<[fn |-> "onDelete",
                       cnpj |-> processedResults(results, table)[i].socData.cnpj,
                       value |-> Num(0)]>>
    /\ results' = ApplyCalls(results, propCalls')
    /\ analysis' = <<>>
    /\ table' = Remount(table, results')
    /\ exported' = <<>>
    /\ UNCHANGED rulesList
    /\ TableFrame

ExportToCSV ==
    /\ results # <<>>
    /\ exported' = <<dataToExport(processedResults(results, table))>>
    /\ propCalls' = <<>>
    /\ UNCHANGED <<results, analysis, rulesList, table>>
    /\ TableFrame

NextTable ==
    \/ \E socs \in TableSocLists, rules \in CallRuleLists : TableDataLoaded(socs, rules)
    \/ \E term \in SearchTerms : SetSearchTerm(term)
    \/ \E f \in StatusFilters : SetStatusFilter(f)
    \/ \E key \in SortKeys : HandleSort(key)
    \/ \E i \in 1..3 : StartEditing(i)
    \/ \E v \in EditValues : ChangeEditValue(v)
    \/ CancelEditing
    \/ SaveEditing
    \/ \E i \in 1..3 : DeleteRow(i)
    \/ ExportToCSV

SpecTable == InitTable /\ [][NextTable]_vars

---------------------------------------------------------------------------
(* One analyzeBilling call up to its prompt, on results lists longer than the
   sample: results is the argument, prompt the data the prompt is built from *)

PromptPatterns == { "allReady", "firstMissing", "alternate", "noneReady" }

HasRule(i, pattern) ==
    CASE pattern = "allReady" -> TRUE
      [] pattern = "firstMissing" -> i # 1
      [] pattern = "alternate" -> i % 2 = 1
      [] OTHER -> FALSE

\* the i-th result: company i has i employees, and a per-head rule or none
PromptResult(i, pattern) ==
    LET name == IF i % 2 = 0 THEN "Alpha" ELSE "Beta"
    IN  calculateBill(Soc(<<"1">>, name, i),
                      IF HasRule(i, pattern)
                      THEN <<Rule(<<"1">>, "PER_HEAD_MIN", Num(1), Num(0), Num(0), Num(0))>>
                      ELSE <<>>)

PromptResults(n, pattern) == [i \in 1..n |-> PromptResult(i, pattern)]

InitPrompt ==
    /\ \E n \in 0..MaxPromptLen, pattern \in PromptPatterns :
          results = PromptResults(n, pattern)
    /\ analysis = <<>>
    /\ isAnalyzing = FALSE
    /\ rulesList = <<>>
    /\ socList = <<>>
    /\ socData = NoSoc
    /\ rule = <<>>
    /\ bill = <<>>
    /\ cnpj = <<>>
    /\ cleaned = <<>>
    /\ pc = "call"
    /\ mapObj = <<>>
    /\ calls = <<>>
    /\ heap = <<>>
    /\ pending = <<>>
    /\ table = InitialTable
    /\ exported = <<>>
    /\ propCalls = <<>>
    /\ socText = <<>>
    /\ pricingText = <<>>
    /\ prompt = <<>>

BuildPromptCall ==
    /\ pc = "call"
    /\ prompt' = <<BuildPrompt(results)>>
    /\ pc' = "return"
    /\ UNCHANGED <<results, analysis, isAnalyzing, rulesList, socList, socData, rule,
                   bill, cnpj, cleaned, mapObj, calls, heap, pending, table,
                   exported, propCalls, socText, pricingText>>

NextPrompt == BuildPromptCall

SpecPrompt == InitPrompt /\ [][NextPrompt]_vars

---------------------------------------------------------------------------
(* The import form: one processData call on the two texts.  socList and
   rulesList are the lists handed to onDataLoaded, results what the App's
   handleDataLoaded makes of them *)

TextChars == {"1", "A", " ", ",", "\n"}

Texts == SeqsUpTo(TextChars, MaxTextLen)

\* a complete row of each kind
SampleSocText == <<"1", ",", "A", ",", "3">>
SamplePricingText == <<"1", ",", "F", "L", "A", "T", ",", "7">>

InitInput ==
    /\ \E text \in Texts :
          \/ socText = text /\ pricingText \in {<<>>, SamplePricingText}
          \/ socText = SampleSocText /\ pricingText = text
    /\ results = <<>>
    /\ analysis = <<>>
    /\ isAnalyzing = FALSE
    /\ rulesList = <<>>
    /\ socList = <<>>
    /\ socData = NoSoc
    /\ rule = <<>>
    /\ bill = <<>>
    /\ cnpj = <<>>
    /\ cleaned = <<>>
    /\ pc = "call"
    /\ mapObj = <<>>
    /\ calls = <<>>
    /\ heap = <<>>
    /\ pending = <<>>
    /\ table = InitialTable
    /\ exported = <<>>
    /\ propCalls = <<>>
    /\ prompt = <<>>

ProcessData ==
    /\ pc = "call"
    /\ socList' = ParseSoc(socText)
    /\ rulesList' = ParsePricing(pricingText)
    /\ results' = reconcileData(socList', rulesList')
    /\ analysis' = <<>>
    /\ pc' = "return"
    /\ UNCHANGED <<isAnalyzing, socData, rule, bill, cnpj, cleaned, mapObj, calls,
                   heap, pending, table, exported, propCalls, socText, pricingText,
                   prompt>>

NextInput == ProcessData

SpecInput == InitInput /\ [][NextInput]_vars

---------------------------------------------------------------------------
(* One company under every rule: the App after loading one record with its
   rule or without one, then count updates of that record *)

InitRaise ==
    /\ \E c \in BillCalls :
          /\ socList = <<c[1]>>
          /\ heap = <<c[1]>>
          /\ rulesList = c[2]
          /\ results = reconcileData(<<c[1]>>, c[2])
    /\ analysis = <<>>
    /\ isAnalyzing = FALSE
    /\ socData = NoSoc
    /\ rule = <<>>
    /\ bill = <<>>
    /\ cnpj = <<>>
    /\ cleaned = <<>>
    /\ pc = "loaded"
    /\ mapObj = <<>>
    /\ calls = <<>>
    /\ pending = <<>>
    /\ table = InitialTable
    /\ exported = <<>>
    /\ propCalls = <<>>
    /\ socText = <<>>
    /\ pricingText = <<>>
    /\ prompt = <<>>

NextRaise == \E n \in Counts : EditUpdate(<<"1">>, n)

SpecRaise == InitRaise /\ [][NextRaise]_vars

---------------------------------------------------------------------------
(* Properties *)

\* a rule field that is a number or is absent
IsAbsentOrNum(x) == x.t \in {"num", "undef"}

\* the integer of a rule field, 0 when the field is absent
ValueOr0(x) == IF IsNum(x) THEN x.n ELSE 0

Max(a, b) == IF a >= b THEN a ELSE b

\* the rules of the list whose normalized identifier is that of the record
MatchingRules(soc, rules) ==
    {k \in DOMAIN rules : cleanCnpj(rules[k].cnpj) = cleanCnpj(soc.cnpj)}

\* C1: a record whose normalized identifier matches no pricing rule gets from
\* reconcileData a result with amount 0, status MISSING_RULE, no pricingRule
\* and the explanation 'Regra de contrato não encontrada', whatever its
\* activeEmployees.
C1_NoRuleGivesMissingRule ==
    pc = "return" =>
        \A i \in DOMAIN socList :
            MatchingRules(socList[i], rulesList) = {} =>
                /\ i \in DOMAIN results
                /\ results[i].calculatedAmount = Num(0)
                /\ results[i].status = "MISSING_RULE"
                /\ results[i].pricingRule = <<>>
                /\ results[i].details.text = "Regra de contrato não encontrada"
                /\ results[i].details.args = <<>>

C1_Witness ==
    /\ pc = "return"
    /\ rulesList # <<>>
    /\ \E i \in DOMAIN socList :
          /\ MatchingRules(socList[i], rulesList) = {}
          /\ socList[i].activeEmployees = Num(3)
          /\ results[i].status = "MISSING_RULE"

\* C2: under a TIERED rule, a record with activeEmployees <= included (the
\* rule's includedEmployees, 0 when absent; the boundary included) is billed
\* exactly basePrice, with status READY.
C2_TieredWithinIncluded ==
    (pc = "return" /\ rule # <<>>) =>
        LET r == rule[1]
            n == socData.activeEmployees
        IN  ( /\ r.model = "TIERED"
              /\ IsNum(n)
              /\ IsAbsentOrNum(r.includedEmployees)
              /\ n.n <= ValueOr0(r.includedEmployees) ) =>
                /\ bill[1].calculatedAmount = r.basePrice
                /\ bill[1].status = "READY"

C2_Witness ==
    /\ pc = "return"
    /\ rule # <<>>
    /\ rule[1].model = "TIERED"
    /\ socData.activeEmployees = Num(2)
    /\ rule[1].includedEmployees = Num(2)
    /\ rule[1].excessPrice = Num(1)
    /\ rule[1].basePrice = Num(2)
    /\ bill[1].calculatedAmount = Num(2)

\* C3: under a TIERED rule, a record with activeEmployees > included is billed
\* basePrice + (activeEmployees - included) * excessRate, included and
\* excessRate being the rule's includedEmployees and excessPrice, 0 when absent.
C3_TieredExcess ==
    (pc = "return" /\ rule # <<>>) =>
        LET r == rule[1]
            n == socData.activeEmployees
        IN  ( /\ r.model = "TIERED"
              /\ IsNum(n)
              /\ IsNum(r.basePrice)
              /\ IsAbsentOrNum(r.includedEmployees)
              /\ IsAbsentOrNum(r.excessPrice)
              /\ n.n > ValueOr0(r.includedEmployees) ) =>
                bill[1].calculatedAmount =
                    Num(r.basePrice.n
                        + (n.n - ValueOr0(r.includedEmployees)) * ValueOr0(r.excessPrice))

C3_Witness ==
    /\ pc = "return"
    /\ rule # <<>>
    /\ rule[1].model = "TIERED"
    /\ socData.activeEmployees = Num(8)
    /\ rule[1].basePrice = Num(129)
    /\ rule[1].includedEmployees = Num(5)
    /\ rule[1].excessPrice = Num(12)
    /\ bill[1].calculatedAmount = Num(165)

\* C4: under a PER_HEAD_MIN rule the amount is max(activeEmployees, minimum) *
\* basePrice, minimum being the rule's minEmployees, 0 when absent.
C4_PerHeadMin ==
    (pc = "return" /\ rule # <<>>) =>
        LET r == rule[1]
            n == socData.activeEmployees
        IN  ( /\ r.model = "PER_HEAD_MIN"
              /\ IsNum(n)
              /\ IsNum(r.basePrice)
              /\ IsAbsentOrNum(r.minEmployees) ) =>
                bill[1].calculatedAmount =
                    Num(Max(n.n, ValueOr0(r.minEmployees)) * r.basePrice.n)

C4_Witness ==
    /\ pc = "return"
    /\ rule # <<>>
    /\ rule[1].model = "PER_HEAD_MIN"
    /\ socData.activeEmployees = Num(4)
    /\ rule[1].basePrice = Num(13)
    /\ rule[1].minEmployees = Num(10)
    /\ bill[1].calculatedAmount = Num(130)

\* C5: under a FLAT rule the amount is basePrice, whatever activeEmployees,
\* includedEmployees, excessPrice and minEmployees are.
C5_FlatIsBasePrice ==
    (pc = "return" /\ rule # <<>>) =>
        (rule[1].model = "FLAT" =>
            /\ bill[1].calculatedAmount = rule[1].basePrice
            /\ bill[1].status = "READY")

C5_Witness ==
    /\ pc = "return"
    /\ rule # <<>>
    /\ rule[1].model = "FLAT"
    /\ socData.activeEmployees = Num(3)
    /\ rule[1].basePrice = Num(2)
    /\ rule[1].includedEmployees = Num(1)
    /\ rule[1].excessPrice = Num(1)
    /\ rule[1].minEmployees = Num(3)
    /\ bill[1].calculatedAmount = Num(2)

\* C6: a rule whose model is none of TIERED, PER_HEAD_MIN, FLAT gives amount 0,
\* the explanation 'Modelo desconhecido', status READY and pricingRule set to
\* that rule, whatever the count and the prices.
C6_UnknownModel ==
    (pc = "return" /\ rule # <<>>) =>
        (rule[1].model \notin PricingModel =>
            /\ bill[1].calculatedAmount = Num(0)
            /\ bill[1].details.text = "Modelo desconhecido"
            /\ bill[1].details.args = <<>>
            /\ bill[1].status = "READY"
            /\ bill[1].pricingRule = rule)

C6_Witness ==
    /\ pc = "return"
    /\ rule # <<>>
    /\ rule[1].model = "UNKNOWN"
    /\ rule[1].basePrice = Num(2)
    /\ socData.activeEmployees = Num(3)
    /\ bill[1].calculatedAmount = Num(0)
    /\ bill[1].status = "READY"

\* C7: in every result held by the App (produced by calculateBill through
\* reconcileData or handleUpdate) the status is READY exactly when pricingRule
\* is present and MISSING_RULE exactly when it is absent; no other status
\* (MISSING_SOC) occurs.
C7_StatusMatchesRule ==
    \A i \in DOMAIN results :
        /\ results[i].status \in {"READY", "MISSING_RULE"}
        /\ results[i].status = "READY" <=> results[i].pricingRule # <<>>
        /\ results[i].status = "MISSING_RULE" <=> results[i].pricingRule = <<>>

C7_Witness ==
    \E i, j \in DOMAIN results :
        /\ results[i].status = "READY"
        /\ results[i].pricingRule # <<>>
        /\ results[i].socData.activeEmployees = Num(2)
        /\ results[j].status = "MISSING_RULE"
        /\ results[j].pricingRule = <<>>
        /\ results[j].socData.activeEmployees = NaN

\* a number >= 0
NonNeg(x) == IsNum(x) /\ x.n >= 0

\* an optional rule field that is absent or a number >= 0
NonNegOrAbsent(x) == x = Undefined \/ NonNeg(x)

\* C8: after reconcileData and any sequence of handleUpdate and handleDelete, a
\* READY result whose record has activeEmployees >= 0 and whose rule has
\* basePrice, includedEmployees, excessPrice and minEmployees >= 0 has an
\* amount >= 0.
C8_ReadyAmountNonNegative ==
    \A i \in DOMAIN results :
        ( /\ results[i].status = "READY"
          /\ results[i].pricingRule # <<>>
          /\ NonNeg(results[i].socData.activeEmployees)
          /\ NonNeg(results[i].pricingRule[1].basePrice)
          /\ NonNegOrAbsent(results[i].pricingRule[1].includedEmployees)
          /\ NonNegOrAbsent(results[i].pricingRule[1].excessPrice)
          /\ NonNegOrAbsent(results[i].pricingRule[1].minEmployees) ) =>
            NonNeg(results[i].calculatedAmount)

C8_Witness ==
    \E i \in DOMAIN results :
        /\ results[i].status = "READY"
        /\ results[i].pricingRule[1].model = "TIERED"
        /\ results[i].pricingRule[1].excessPrice = Num(2)
        /\ results[i].socData.activeEmployees = Num(2)
        /\ results[i].calculatedAmount = Num(3)

\* the positions of the decimal digits of s
DigitPositions(s) == {i \in DOMAIN s : s[i] \in Digits}

\* C9: cleanCnpj returns exactly the subsequence of the decimal digits of its
\* argument, in their order: the k-th digit of the argument is the k-th
\* character of the value, nothing else is in it, and "" gives "".
C9_CleanCnpjKeepsDigits ==
    pc = "return" =>
        /\ Len(cleaned) = Cardinality(DigitPositions(cnpj))
        /\ \A j \in DigitPositions(cnpj) :
              LET k == Cardinality({i \in DigitPositions(cnpj) : i <= j})
              IN  k \in DOMAIN cleaned /\ cleaned[k] = cnpj[j]
        /\ (cnpj = <<>> => cleaned = <<>>)

C9_Witness ==
    /\ pc = "return"
    /\ cnpj = <<"1", ".", "0">>
    /\ cleaned = <<"1", "0">>

\* C10: reconcileData prices a record with a rule exactly when some rule of the
\* list has the record's normalized identifier, and the rule it uses has that
\* normalized identifier; punctuation on either side neither prevents nor
\* causes a match.
C10_MatchOnNormalizedId ==
    pc = "return" =>
        \A i \in DOMAIN socList :
            /\ i \in DOMAIN results
            /\ results[i].pricingRule # <<>> <=>
                   MatchingRules(socList[i], rulesList) # {}
            /\ results[i].pricingRule # <<>> =>
                   \E k \in MatchingRules(socList[i], rulesList) :
                       results[i].pricingRule[1] = rulesList[k]

C10_Witness ==
    /\ pc = "return"
    /\ Len(rulesList) = 1
    /\ rulesList[1].cnpj = <<"1", ".", "2">>
    /\ \E i \in DOMAIN socList :
          /\ socList[i].cnpj = <<"1", "2">>
          /\ results[i].pricingRule = <<rulesList[1]>>
          /\ results[i].status = "READY"

\* C11: reconcileData returns as many results as there are records, the i-th
\* result holding the i-th record; records with equal identifiers are neither
\* merged nor dropped, and no records give no results.
C11_OneResultPerRecordInOrder ==
    pc = "return" =>
        /\ Len(results) = Len(socList)
        /\ \A i \in DOMAIN socList : results[i].socData = socList[i]
        /\ (socList = <<>> => results = <<>>)

C11_Witness ==
    /\ pc = "return"
    /\ Len(socList) = 2
    /\ socList[1] = socList[2]
    /\ Len(results) = 2
    /\ results[1].socData = socList[1]
    /\ results[2].socData = socList[2]

\* the last rule of the list with the record's normalized identifier
LastMatching(soc, rules) ==
    CHOOSE k \in MatchingRules(soc, rules) :
        \A j \in MatchingRules(soc, rules) : j <= k

\* C12: when several rules have the same normalized identifier, every matching
\* record is priced with the last of them in the list, and its result is the
\* one that rule alone gives: earlier colliding rules have no effect.
C12_LastRuleWins ==
    pc = "return" =>
        \A i \in DOMAIN socList :
            MatchingRules(socList[i], rulesList) # {} =>
                LET last == rulesList[LastMatching(socList[i], rulesList)]
                IN  /\ i \in DOMAIN results
                    /\ results[i].pricingRule = <<last>>
                    /\ results[i] = calculateBill(socList[i], <<last>>)

C12_Witness ==
    /\ pc = "return"
    /\ Len(rulesList) = 2
    /\ rulesList[1].cnpj = <<"1", "2">>
    /\ rulesList[1].model = "TIERED"
    /\ rulesList[2].cnpj = <<"1", ".", "2">>
    /\ rulesList[2].model = "FLAT"
    /\ \E i \in DOMAIN socList :
          /\ socList[i].cnpj = <<"1", "2">>
          /\ results[i].pricingRule = <<rulesList[2]>>
          /\ results[i].calculatedAmount = Num(7)

\* C13: handleUpdate is idempotent: on every results list the App can hold,
\* for every identifier and new count, updating twice gives the list that
\* updating once gives.
C13_UpdateIdempotent ==
    \A id \in AppCnpjs, n \in NewCounts :
        handleUpdateResults(handleUpdateResults(results, id, n), id, n)
            = handleUpdateResults(results, id, n)

C13_Witness ==
    \E i \in DOMAIN results :
        /\ results[i].socData.cnpj = <<"1", "2">>
        /\ results[i].socData.activeEmployees = Num(2)
        /\ results[i].pricingRule # <<>>
        /\ results[i].pricingRule[1].model = "PER_HEAD_MIN"
        /\ results[i].calculatedAmount = Num(6)
        /\ handleUpdateResults(results, <<"1", "2">>, Num(2)) = results

\* C14: handleUpdate re-prices exactly the results whose record's raw
\* identifier equals the given one (all of them when several rows share it) and
\* gives them the new count; every other result, also one whose identifier only
\* normalizes to the same digits, stays as it was at its position.
C14_UpdateTouchesOnlyRawMatches ==
    \A id \in AppCnpjs, n \in NewCounts :
        LET u == handleUpdateResults(results, id, n)
        IN  /\ Len(u) = Len(results)
            /\ \A i \in DOMAIN results :
                  IF results[i].socData.cnpj = id
                  THEN u[i].socData.activeEmployees = n
                  ELSE u[i] = results[i]

C14_Witness ==
    \E i, k \in DOMAIN results :
        /\ results[i].socData.cnpj = <<"1", "2">>
        /\ results[i].socData.activeEmployees = Num(2)
        /\ results[i].pricingRule # <<>>
        /\ results[k].pricingRule = results[i].pricingRule
        /\ results[k].socData.cnpj = <<"1", ".", "2">>
        /\ results[k].socData.activeEmployees = Num(3)

\* C15: handleUpdate prices a matched result with the rule the result already
\* holds: the pricingRule of every result is the same before and after the
\* update, and a result without a rule stays without one.
C15_UpdateKeepsHeldRule ==
    \A id \in AppCnpjs, n \in NewCounts :
        LET u == handleUpdateResults(results, id, n)
        IN  \A i \in DOMAIN results :
                /\ i \in DOMAIN u
                /\ u[i].pricingRule = results[i].pricingRule
                /\ results[i].socData.cnpj = id =>
                       u[i] = calculateBill(u[i].socData, results[i].pricingRule)

C15_Witness ==
    \E i, j \in DOMAIN results :
        /\ results[i].socData.activeEmployees = Num(0)
        /\ results[i].socData.cnpj = <<"1", ".", "2">>
        /\ results[i].pricingRule # <<>>
        /\ results[i].pricingRule[1].cnpj = <<"1", "2">>
        /\ results[j].socData.cnpj = <<"3">>
        /\ results[j].socData.activeEmployees = Num(2)
        /\ results[j].pricingRule = <<>>

\* C16: a result matched by handleUpdate becomes what reconcileData returns for
\* the one record with the new count against the one rule the result held (no
\* rule when it held none): same amount, explanation, status and pricingRule.
C16_UpdateEqualsReconcileOfOne ==
    \A id \in AppCnpjs, n \in NewCounts :
        LET u == handleUpdateResults(results, id, n)
        IN  \A i \in DOMAIN results :
                results[i].socData.cnpj = id =>
                    LET one == reconcileData(<<NewSocData(results[i].socData, n)>>,
                                             results[i].pricingRule)
                    IN  /\ i \in DOMAIN u
                        /\ u[i].calculatedAmount = one[1].calculatedAmount
                        /\ u[i].details = one[1].details
                        /\ u[i].status = one[1].status
                        /\ u[i].pricingRule = one[1].pricingRule

C16_Witness ==
    \E i \in DOMAIN results :
        /\ results[i].socData.activeEmployees = Num(2)
        /\ results[i].pricingRule # <<>>
        /\ results[i].pricingRule[1].model = "TIERED"
        /\ results[i].pricingRule[1].excessPrice = Num(2)
        /\ results[i].details.text = "Base R$$1 + ($2 extras x R$$3)"
        /\ results[i] =
              reconcileData(<<results[i].socData>>, results[i].pricingRule)[1]

\* C17: reconcileData is deterministic: two calls with equal record lists and
\* equal rule lists return equal result lists, whatever reconcileData,
\* calculateBill and handleUpdate calls were made before or between them.
C17_ReconcileDeterministic ==
    \A a, b \in DOMAIN calls :
        (calls[a].socs = calls[b].socs /\ calls[a].rules = calls[b].rules) =>
            calls[a].ret = calls[b].ret

C17_Witness ==
    /\ Len(calls) = 3
    /\ calls[1].socs = calls[3].socs
    /\ calls[1].rules = calls[3].rules
    /\ calls[2].rules # calls[1].rules
    /\ calls[2].rules # <<>>
    /\ calls[1].rules = <<>>
    /\ cleanCnpj(calls[2].rules[1].cnpj) = cleanCnpj(calls[1].socs[1].cnpj)
    /\ calls[3].ret = calls[1].ret
    /\ calls[3].ret[1].status = "MISSING_RULE"
    /\ bill # <<>>

\* the integer a rule field stands for when an invalid or missing field (NaN,
\* undefined) counts as 0
ZeroIfInvalid(x) == IF IsNum(x) THEN x.n ELSE 0

\* the amount of the rule's formula with 0 in place of invalid or missing fields
AmountWithDefaults(n, r) ==
    LET base == ZeroIfInvalid(r.basePrice)
        inc == ZeroIfInvalid(r.includedEmployees)
        exc == ZeroIfInvalid(r.excessPrice)
        min == ZeroIfInvalid(r.minEmployees)
    IN  CASE r.model = "TIERED" ->
                 IF n <= inc THEN base ELSE base + (n - inc) * exc
          [] r.model = "PER_HEAD_MIN" -> Max(n, min) * base
          [] r.model = "FLAT" -> base
          [] OTHER -> 0

\* C18: every invalid or missing numeric field of the rule (basePrice,
\* includedEmployees, excessPrice, minEmployees) is treated as 0 before the
\* amount is computed: for a record with a numeric count the amount is a
\* defined number, the rule's formula evaluated with 0 for those fields.
C18_InvalidFieldsCountAsZero ==
    (pc = "return" /\ rule # <<>> /\ IsNum(socData.activeEmployees)) =>
        /\ IsNum(bill[1].calculatedAmount)
        /\ bill[1].calculatedAmount =
               Num(AmountWithDefaults(socData.activeEmployees.n, rule[1]))

\* what does hold: the three optional fields count as 0 when invalid or missing
C18_OptionalFieldsCountAsZero ==
    (pc = "return" /\ rule # <<>> /\ IsNum(socData.activeEmployees)
        /\ IsNum(rule[1].basePrice)) =>
        bill[1].calculatedAmount =
            Num(AmountWithDefaults(socData.activeEmployees.n, rule[1]))


\* the identifier and name a result's record carries, on the heap h
IdAndName(h, res) == <<h[res.socData].cnpj, h[res.socData].companyName>>

\* no SocData object that exists is changed or dropped by the step
ObjectsUnchanged ==
    \A a \in DOMAIN heap : a \in DOMAIN heap' /\ heap'[a] = heap[a]

\* a load gives every result the record object it was computed for
LoadCarriesRecords ==
    socList' # socList =>
        /\ Len(results') = Len(socList')
        /\ \A i \in DOMAIN results' : results'[i].socData = socList'[i]

\* an update keeps each row's identifier and name, and a row whose record is
\* not the one it had holds an object that did not exist before
UpdateCopiesRecords ==
    (socList' = socList /\ Len(results') = Len(results)) =>
        \A i \in DOMAIN results :
            /\ IdAndName(heap', results'[i]) = IdAndName(heap, results[i])
            /\ results'[i].socData # results[i].socData =>
                   results'[i].socData \notin DOMAIN heap

\* every result carries the raw identifier and name of a loaded record
CarriesRawIdAndName ==
    \A i \in DOMAIN results :
        \E j \in DOMAIN socList :
            IdAndName(heap, results[i]) = <<heap[socList[j]].cnpj, heap[socList[j]].companyName>>

\* C19: reconcile and the count update never change the identifier or name of
\* a record and never mutate the input records: every result carries the raw
\* identifier and name of its record, and an update puts the new count in a
\* new record, leaving the record of the previous results unchanged.
C19_RecordsNeverMutated ==
    [][/\ ObjectsUnchanged
       /\ LoadCarriesRecords
       /\ UpdateCopiesRecords
       /\ CarriesRawIdAndName']_vars

\* a row with a punctuated identifier was updated: it holds a new record with
\* the same raw identifier, and the loaded record still has its own count
C19_Witness ==
    \E i \in DOMAIN results, j \in DOMAIN socList :
        /\ \A k \in DOMAIN socList : results[i].socData # socList[k]
        /\ heap[results[i].socData].cnpj = <<"1", ".", "2">>
        /\ IdAndName(heap, results[i]) = <<heap[socList[j]].cnpj, heap[socList[j]].companyName>>
        /\ heap[results[i].socData].activeEmployees = Num(2)
        /\ heap[socList[j]].activeEmployees = Num(3)
        /\ results[i].status = "READY"

\* analyzeBilling has resolved to a non-empty string whenever it has settled
SettlesWithText ==
    \A i \in DOMAIN pending :
        pending[i].settled # <<>> =>
            /\ pending[i].settled[1].kind = "fulfilled"
            /\ pending[i].settled[1].text # <<>>
            /\ pending[i].settled[1].text[1] # ""

C21_AnalysisIsOfHeldResults ==
    analysis # <<>> => analysis[1].results = results

\* C22: after a reconcile and any sequence of updates and deletes, the held
\* results equal the reconcile of the current records (the loaded records with
\* the deleted ones removed and the updated counts applied) with the same rules.
C22_EditsEqualFullRecomputation ==
    results = reconcileData(socList, rulesList)

\* of two loaded records one was deleted and the other, found by its
\* normalized identifier, was given another count
C22_Witness ==
    /\ Len(heap) = 2
    /\ Len(results) = 1
    /\ results[1].socData.cnpj = <<"1", ".", "2">>
    /\ results[1].socData.activeEmployees = Num(2)
    /\ results[1].status = "READY"
    /\ results[1].calculatedAmount = Num(3)

\* C23: the CSV exporter writes exactly one row per BillingResult of the
\* results list, whatever search term, status filter and sort order are active.
C23_ExportsEveryResult ==
    exported # <<>> => Len(exported[1]) = Len(results)

\* the rows an export writes are the rows the table shows
ExportsRowsShown ==
    exported # <<>> => exported[1] = dataToExport(processedResults(results, table))

\* the step is a call of cancelEditing / saveEditing / startEditing
IsCancelStep == CancelEditing
IsSaveStep == SaveEditing
IsStartStep == \E i \in 1..3 : StartEditing(i)

\* start-editing takes the raw identifier and the count of a row of results
StartTakesRow ==
    IsStartStep =>
        /\ \E i \in DOMAIN results :
              /\ table'.editingCnpj = <<results[i].socData.cnpj>>
              /\ table'.editValue = results[i].socData.activeEmployees
        /\ propCalls' = <<>>
        /\ results' = results

\* cancel calls neither prop and leaves results unchanged
CancelCallsNothing ==
    IsCancelStep =>
        /\ propCalls' = <<>>
        /\ results' = results
        /\ table'.editingCnpj = <<>>

\* save, with a row being edited, calls onUpdate once with the identifier
\* the edit was started on and the edit value, and leaves edit mode
SaveCallsOnUpdateOnce ==
    (IsSaveStep /\ table.editingCnpj # <<>>) =>
        /\ propCalls' = <<[fn |-> "onUpdate", cnpj |-> table.editingCnpj[1],
                           value |-> table.editValue]>>
        /\ results' = handleUpdateResults(results, table.editingCnpj[1], table.editValue)
        /\ table'.editingCnpj = <<>>

\* save with no row being edited does nothing
SaveWithoutEditDoesNothing ==
    (IsSaveStep /\ table.editingCnpj = <<>>) =>
        /\ propCalls' = <<>>
        /\ results' = results
        /\ table' = table

\* C29: an inline edit changes the results only on save: cancel calls neither
\* onUpdate nor onDelete and leaves results unchanged; save calls onUpdate
\* exactly once with the raw identifier of the row the edit was started on
\* and the current edit value, and leaves edit mode; save with no row being
\* edited does nothing.
C29_EditChangesResultsOnlyOnSave ==
    [][/\ StartTakesRow
       /\ CancelCallsNothing
       /\ SaveCallsOnUpdateOnce
       /\ SaveWithoutEditDoesNothing]_vars

\* the same for an edit started on a row whose identifier is not empty
SaveOfNonEmptyIdentifier ==
    [][/\ StartTakesRow
       /\ CancelCallsNothing
       /\ (table.editingCnpj # <<>> /\ table.editingCnpj[1] # <<>>) => SaveCallsOnUpdateOnce
       /\ SaveWithoutEditDoesNothing]_vars

\* the positions of the READY results, and the k-th of them in list order
ReadyPositions(res) == {i \in DOMAIN res : res[i].status = "READY"}
NthReady(res, k) ==
    CHOOSE i \in ReadyPositions(res) :
        Cardinality({j \in ReadyPositions(res) : j <= i}) = k

\* the sum of the amounts of the READY results among the first k
RECURSIVE ReadySum(_, _)
ReadySum(res, k) ==
    IF k = 0 THEN 0
    ELSE ReadySum(res, k - 1)
         + (IF res[k].status = "READY" THEN res[k].calculatedAmount.n ELSE 0)

\* C24: the prompt is derived from READY results only: the company count is
\* the number of READY results, the total the sum of their amounts, and the
\* sample holds at most the first 30 READY results in list order; no
\* MISSING_RULE result contributes.
C24_PromptFromReadyOnly ==
    pc = "return" =>
        LET p == prompt[1]
            nReady == Cardinality(ReadyPositions(results))
        IN  /\ p.count = nReady
            /\ p.total = <<ReadySum(results, Len(results)), "00">>
            /\ Len(p.sample) = (IF nReady < 30 THEN nReady ELSE 30)
            /\ \A k \in DOMAIN p.sample :
                  LET r == results[NthReady(results, k)]
                  IN  /\ p.sample[k].company = r.socData.companyName
                      /\ p.sample[k].employees = r.socData.activeEmployees
                      /\ p.sample[k].amount = r.calculatedAmount
                      /\ p.sample[k].details = r.details

\* a list of more than 30 READY results after a MISSING_RULE one: the sample
\* starts at the second result and stops at the 31st
C24_Witness ==
    /\ pc = "return"
    /\ Len(results) > 31
    /\ results[1].status = "MISSING_RULE"
    /\ Len(prompt[1].sample) = 30
    /\ prompt[1].sample[1].employees = Num(2)
    /\ prompt[1].sample[30].employees = Num(31)
    /\ prompt[1].count = Len(results) - 1

\* C25: a company row or pricing row whose identifier field is missing is
\* dropped by processData: no record and no rule passed to reconcile has an
\* empty identifier.
C25_NoEmptyIdentifier ==
    pc = "return" =>
        /\ \A i \in DOMAIN socList : socList[i].cnpj # <<>>
        /\ \A i \in DOMAIN rulesList : rulesList[i].cnpj # <<>>

\* a row is dropped exactly when its identifier field is absent or the empty
\* text: every line of the trimmed text with a first field of at least one
\* character gives a record
DropsRowsWithoutFirstField ==
    pc = "return" =>
        LET socLines == Split(Trim(socText), "\n")
            kept == {i \in DOMAIN socLines : Split(socLines[i], ",")[1] # <<>>}
        IN  Len(socList) = Cardinality(kept)

\* the number of results with the given status
CountStatus(res, status) == Cardinality({i \in DOMAIN res : res[i].status = status})

\* C26: a count update never changes the status or the pricingRule of any
\* result: a MISSING_RULE result stays MISSING_RULE with amount 0, a READY
\* result stays READY with the same rule, so the numbers of READY and of
\* MISSING_RULE results are not changed by updates.
C26_UpdateKeepsStatusAndRule ==
    [][pc' = "updated" =>
          /\ Len(results') = Len(results)
          /\ \A i \in DOMAIN results :
                /\ results'[i].status = results[i].status
                /\ results'[i].pricingRule = results[i].pricingRule
                /\ results[i].status = "MISSING_RULE" =>
                       results'[i].calculatedAmount = Num(0)
          /\ CountStatus(results', "READY") = CountStatus(results, "READY")
          /\ CountStatus(results', "MISSING_RULE") = CountStatus(results, "MISSING_RULE")]_vars

\* after an update, a row without a rule has the new count and amount 0
\* beside a READY row
C26_Witness ==
    /\ pc = "updated"
    /\ \E i, j \in DOMAIN results :
          /\ results[i].status = "MISSING_RULE"
          /\ results[i].socData.cnpj = <<"3">>
          /\ results[i].socData.activeEmployees = Num(2)
          /\ results[i].calculatedAmount = Num(0)
          /\ results[j].status = "READY"

\* the identifier and name of a record or of a result's record
Identity(soc) == <<soc.cnpj, soc.companyName>>

\* s is t with some elements left out
RECURSIVE IsSubsequence(_, _)
IsSubsequence(s, t) ==
    IF s = <<>> THEN TRUE
    ELSE IF t = <<>> THEN FALSE
    ELSE IF s[1] = t[1] THEN IsSubsequence(Tail(s), Tail(t))
    ELSE IsSubsequence(s, Tail(t))

\* the positions of res whose raw identifier is not id, and the k-th of them
KeptPositions(res, id) == {i \in DOMAIN res : res[i].socData.cnpj # id}
NthKept(res, id, k) ==
    CHOOSE i \in KeptPositions(res, id) :
        Cardinality({j \in KeptPositions(res, id) : j <= i}) = k

\* results is the list of the last reconcile with some companies left out
SubsequenceOfLastReconcile ==
    LET last == reconcileData(heap, rulesList)
    IN  IsSubsequence([i \in 1..Len(results) |-> Identity(results[i].socData)],
                      [i \in 1..Len(last) |-> Identity(last[i].socData)])

\* C27: after any sequence of updates and deletes the held results are a
\* subsequence of the list of the last reconcile with respect to company
\* identity and order: update keeps length and positions, delete removes
\* exactly the results whose raw identifier equals the given one and keeps
\* the others in order, and no operation adds or reorders a result.
C27_EditsKeepASubsequence ==
    /\ []SubsequenceOfLastReconcile
    /\ [][/\ pc' = "updated" =>
                /\ Len(results') = Len(results)
                /\ \A i \in DOMAIN results :
                      Identity(results'[i].socData) = Identity(results[i].socData)
          /\ pc' = "deleted" =>
                \E id \in AppCnpjs :
                   /\ Len(results') = Cardinality(KeptPositions(results, id))
                   /\ \A k \in DOMAIN results' : results'[k] = results[NthKept(results, id, k)]]_vars

\* of three loaded rows the one with identifier "12" was deleted; the two
\* rows with "1.2", the same identifier once normalized, are both still held
C27_Witness ==
    /\ pc = "deleted"
    /\ Len(heap) = 3
    /\ heap[2].cnpj = <<"1", "2">>
    /\ Len(results) = 2
    /\ results[1].socData.cnpj = <<"1", ".", "2">>
    /\ results[2].socData.cnpj = <<"1", ".", "2">>

\* C28: in every reachable state of the dashboard readyCount + errorCount is
\* the number of results, and totalRevenue, summed over all results, is the
\* sum of the amounts of the READY results, the total analyzeBilling reports,
\* because results without a rule contribute 0.
C28_DashboardTotals ==
    /\ readyCount(results) + errorCount(results) = Len(results)
    /\ totalRevenue(results) = totalRev(results)

\* a row without a rule, with employees, beside a READY row with an amount
C28_Witness ==
    /\ \E i, j \in DOMAIN results :
          /\ results[i].status = "MISSING_RULE"
          /\ results[i].socData.activeEmployees = Num(2)
          /\ results[j].status = "READY"
          /\ results[j].calculatedAmount = Num(7)
    /\ totalRevenue(results) = Num(7)
    /\ errorCount(results) = 1

\* a rule whose numeric fields are numbers >= 0, the optional ones or absent
NonNegRule(r) ==
    /\ NonNeg(r.basePrice)
    /\ NonNegOrAbsent(r.includedEmployees)
    /\ NonNegOrAbsent(r.excessPrice)
    /\ NonNegOrAbsent(r.minEmployees)

\* the floor of the amount under each model
AmountAtLeastFloor ==
    \A i \in DOMAIN results :
        ( /\ results[i].pricingRule # <<>>
          /\ NonNegRule(results[i].pricingRule[1])
          /\ IsNum(results[i].socData.activeEmployees) ) =>
            LET r == results[i].pricingRule[1]
            IN  /\ r.model = "TIERED" => Le(r.basePrice, results[i].calculatedAmount)
                /\ r.model = "PER_HEAD_MIN" =>
                       Le(Num(ValueOr0(r.minEmployees) * r.basePrice.n),
                          results[i].calculatedAmount)

\* a step that raises a row's count does not lower its amount
RaiseNeverLowers ==
    Len(results') = Len(results) =>
        \A i \in DOMAIN results :
            ( /\ results'[i].pricingRule = results[i].pricingRule
              /\ results[i].pricingRule # <<>> => NonNegRule(results[i].pricingRule[1])
              /\ Le(results[i].socData.activeEmployees, results'[i].socData.activeEmployees) ) =>
                Le(results[i].calculatedAmount, results'[i].calculatedAmount)

\* C30: for a fixed rule with non-negative numeric fields the amount is
\* non-decreasing in the count under every model: raising a company's count
\* through an update never lowers its amount, a TIERED amount is never below
\* basePrice and a PER_HEAD_MIN amount never below minEmployees * basePrice.
C30_AmountMonotoneInCount ==
    /\ []AmountAtLeastFloor
    /\ [][RaiseNeverLowers]_vars

\* a TIERED row raised from 0 employees, inside the franchise, to 3: two
\* employees above the franchise of 1 at 2 each on a base of 1
C30_Witness ==
    /\ pc = "updated"
    /\ Len(results) = 1
    /\ results[1].pricingRule = <<Rule(<<"1">>, "TIERED", Num(1), Num(1), Num(2), Undefined)>>
    /\ heap[1].activeEmployees = Num(0)
    /\ results[1].socData.activeEmployees = Num(3)
    /\ results[1].calculatedAmount = Num(5)
=============================================================================
